---- MODULE Spec2Model ----
(***************************************************************************)
(* The abstract SQL query generator (QueryGenerator and its query builders *)
(* insert, bulkInsert, update, addIndex, select) as a state machine.       *)
(*                                                                         *)
(* A request (the builder called and its arguments) is pending in the      *)
(* state; one action per builder applies the builder to it and stores what *)
(* the builder returns or raises.                                          *)
(*                                                                         *)
(* SQL text is a sequence of tokens (strings): the pieces the code         *)
(* concatenates.  The empty text is << >>.  A token that starts with '!'   *)
(* stands for an exception raised while the text was built.                *)
(***************************************************************************)
EXTENDS Integers, Sequences, FiniteSets, TLC

VARIABLES
  op,       \* the builder the pending request calls
  args,     \* the arguments of the request, as passed
  pc,       \* "call": the request is pending, "done": the builder has returned
  result,   \* what the builder returned: [kind, sql, err]
  dialect,  \* this._dialect.supports and this.options of the generator
  heap      \* the caller's objects passed by reference, as the builder leaves them

vars == <<op, args, pc, result, dialect, heap>>

(***************************************************************************)
(* JavaScript values.  A plain object is an ordered list of <<key, value>> *)
(* pairs (insertion order of its own string keys).                         *)
(***************************************************************************)
Null == [t |-> "null", v |-> 0]
Undef == [t |-> "undef", v |-> 0]
Num(n) == [t |-> "num", v |-> n]
Str(s) == [t |-> "str", v |-> s]
Bool(b) == [t |-> "bool", v |-> b]
Arr(s) == [t |-> "arr", v |-> s]
Obj(s) == [t |-> "obj", v |-> s]
\* Utils.Literal: val is a piece of SQL text
Lit(text) == [t |-> "lit", v |-> text]

IsNull(x) == x.t = "null"
IsUndefined(x) == x.t = "undef"
IsPlainObject(x) == x.t = "obj"
IsArray(x) == x.t = "arr"
IsString(x) == x.t = "str"
IsSequelizeMethod(x) == x.t = "lit"

Truthy(x) ==
  CASE x.t = "null" -> FALSE
    [] x.t = "undef" -> FALSE
    [] x.t = "num" -> x.v # 0
    [] x.t = "str" -> x.v # ""
    [] x.t = "bool" -> x.v
    [] OTHER -> TRUE

\* _.size(x) of an array or a plain object
Size(x) == IF x.t \in {"arr", "obj"} THEN Len(x.v) ELSE 0

HasKey(o, k) == o.t = "obj" /\ \E i \in 1..Len(o.v) : o.v[i][1] = k

\* o[k]: undefined when o has no own property k
Prop(o, k) ==
  IF HasKey(o, k)
    THEN o.v[CHOOSE i \in 1..Len(o.v) : o.v[i][1] = k][2]
    ELSE Undef

\* o[k] = x: an existing key keeps its position, a new key goes last
SetProp(o, k, x) ==
  IF HasKey(o, k)
    THEN Obj([i \in 1..Len(o.v) |-> IF o.v[i][1] = k THEN <<k, x>> ELSE o.v[i]])
    ELSE Obj(Append(o.v, <<k, x>>))

\* delete o[k]
DeleteProp(o, k) == Obj(SelectSeq(o.v, LAMBDA p : p[1] # k))

(***************************************************************************)
(* Text                                                                    *)
(***************************************************************************)
ErrRawWhere == "!raw-where-removed"
ErrIndexField == "!index-field-has-no-name"
ErrOrder == "!invalid-order-direction"
ErrAssociation == "!not-valid-association"
ErrOrderStructure == "!unknown-order-structure"
\* the TypeError of strict mode for a property assigned on a string
ErrStringProperty == "!cannot-create-property-on-string"
ErrTokens ==
  {ErrRawWhere, ErrIndexField, ErrOrder, ErrAssociation, ErrOrderStructure,
   ErrStringProperty}

\* what a builder that returns without a value hands back
NothingReturned == <<"?undefined">>

Thrown(text) == \E i \in 1..Len(text) : text[i] \in ErrTokens

\* Array.prototype.join: the texts joined by the separator token
RECURSIVE Join(_, _)
Join(texts, sep) ==
  IF Len(texts) = 0 THEN << >>
  ELSE IF Len(texts) = 1 THEN texts[1]
  ELSE texts[1] \o <<sep>> \o Join(Tail(texts), sep)

\* texts.join('')
RECURSIVE JoinEmpty(_)
JoinEmpty(texts) ==
  IF Len(texts) = 0 THEN << >> ELSE Head(texts) \o JoinEmpty(Tail(texts))

\* the strings of a list put one after the other
RECURSIVE ConcatAll(_)
ConcatAll(parts) == IF Len(parts) = 0 THEN "" ELSE Head(parts) \o ConcatAll(Tail(parts))

\* items.filter(item => item && item.length)
NonEmpty(texts) == SelectSeq(texts, LAMBDA x : Len(x) > 0)

\* ' text '.trim() for the texts the builders trim: blank tokens at the end
RECURSIVE TrimEnd(_)
TrimEnd(text) ==
  IF Len(text) > 0 /\ text[Len(text)] = " "
    THEN TrimEnd(SubSeq(text, 1, Len(text) - 1))
    ELSE text

Returned(text) ==
  IF Thrown(text)
    THEN [kind |-> "error", sql |-> << >>,
          err |-> text[CHOOSE i \in 1..Len(text) :
                         text[i] \in ErrTokens /\ \A j \in 1..(i-1) : text[j] \notin ErrTokens]]
  ELSE IF text = NothingReturned
    THEN [kind |-> "undefined", sql |-> << >>, err |-> ""]
    ELSE [kind |-> "text", sql |-> text, err |-> ""]

NoResult == [kind |-> "none", sql |-> << >>, err |-> ""]

(***************************************************************************)
(* The dialect: the capability flags of this._dialect.supports the         *)
(* builders read, and omitNull / databaseVersion of the generator options. *)
(* returnValues is "none", "returning" or "output"; IGNORE is the keyword  *)
(* text of the dialect ("" when it has none).                              *)
(***************************************************************************)
BaseDialect ==
  [ defaultValues |-> FALSE, valuesEmpty |-> FALSE, returnValues |-> "none",
    tmpTableTrigger |-> FALSE, exception |-> FALSE, onDuplicateKey |-> FALSE,
    autoIncDefaultValue |-> TRUE, identityInsert |-> FALSE, autoIncUpdate |-> TRUE,
    default |-> TRUE, ignore |-> "", limitOnUpdate |-> FALSE, unionAll |-> TRUE,
    indexViaAlter |-> FALSE, omitNull |-> FALSE, databaseVersion |-> <<0, 0, 0>>,
    schemas |-> FALSE, bulkDefault |-> FALSE, updateOnDuplicate |-> FALSE,
    ignoreDuplicates |-> "", joinTableDependent |-> TRUE,
    lock |-> FALSE, lockKey |-> FALSE, lockOf |-> FALSE, forShare |-> "",
    index |-> [collate |-> TRUE, length |-> FALSE, parser |-> FALSE, type |-> FALSE,
               using |-> 0, where |-> FALSE, concurrently |-> FALSE] ]

(***************************************************************************)
(* Identifier and value escaping                                           *)
(***************************************************************************)
\* The identifiers that hold delimiters are the table names quoted before:
\* Requoted(n, k) is the name n quoted k times.
TableNames == {"users", "tasks", "groups", "user_groups", "items"}
MaxRequote == 3

RECURSIVE Repeated(_, _)
Repeated(c, j) == IF j = 0 THEN "" ELSE c \o Repeated(c, j - 1)

Requoted(n, k) == Repeated("[", k) \o n \o Repeated("]", 2^k - 1)

\* the identifiers quoted before, each paired with what quoting it again gives
QuotedAgain ==
  { <<Requoted(n, k), Requoted(n, k + 1)>> : n \in TableNames, k \in 1..MaxRequote }

\* quoteIdentifier of the dialect: the identifier in the dialect's delimiters,
\* a delimiter inside it doubled
quoteIdentifier(id) ==
  LET Doubled(again) ==
        IF again = {} THEN "[" \o id \o "]" ELSE (CHOOSE p \in again : TRUE)[2]
  IN Doubled({p \in QuotedAgain : p[1] = id})

\* identifiers.split('.'): everything before the last '.' and the last segment
SplitFolded(s) ==
  CASE s = "t.c" -> <<"t", "c">>
    [] s = "s.t.c" -> <<"s.t", "c">>
    [] s = "s.users" -> <<"s", "users">>
    [] s = "Tasks.title" -> <<"Tasks", "title">>
    [] OTHER -> <<s>>

\* lines 512-519
quoteIdentifiers(identifiers) ==
  LET parts == SplitFolded(identifiers)
  IN IF Len(parts) = 2
       THEN quoteIdentifier(parts[1]) \o "." \o quoteIdentifier(parts[2])
       ELSE quoteIdentifier(identifiers)

\* lines 37-55: a table name, or the table object of a name in a schema
\* ("" is an absent schema or delimiter)
addSchema(tableName, schema, schemaDelimiter) ==
  IF schema = "" THEN Str(tableName)
  ELSE [t |-> "table", tableName |-> tableName, schema |-> schema,
        delimiter |-> IF schemaDelimiter = "" THEN "." ELSE schemaDelimiter]

\* lines 330-362: param is a name (Str) or a table object, as is "" when absent
quoteTable(param, as) ==
  (IF param.t = "table" /\ dialect.schemas /\ param.schema # ""
     THEN quoteIdentifier(param.schema) \o "." ELSE "")
  \o quoteIdentifier(IF param.t # "table" THEN param.v
                     ELSE IF dialect.schemas THEN param.tableName
                     ELSE (IF param.schema # "" THEN param.schema \o param.delimiter ELSE "")
                          \o param.tableName)
  \o (IF as # "" THEN " AS " \o quoteIdentifier(as) ELSE "")

\* SqlString.escape of a scalar: null and undefined give the NULL literal
RECURSIVE SqlStringEscape(_)
SqlStringEscape(x) ==
  CASE x.t = "null" -> <<"NULL">>
    [] x.t = "undef" -> <<"NULL">>
    [] x.t = "num" -> <<ToString(x.v)>>
    [] x.t = "str" -> <<"'" \o x.v \o "'">>
    [] x.t = "bool" -> <<IF x.v THEN "true" ELSE "false">>
    [] x.t = "arr" ->
         <<"(">> \o Join([i \in 1..Len(x.v) |-> SqlStringEscape(x.v[i])], ", ") \o <<")">>
    [] OTHER -> <<"[object Object]">>

\* handleSequelizeMethod(smth) for a Literal: val verbatim
handleSequelizeMethod(smth) == smth.v

\* escape(value, field, options) without a field type
escape(x) ==
  IF x.t \notin {"null", "undef"} /\ IsSequelizeMethod(x)
    THEN handleSequelizeMethod(x)
    ELSE SqlStringEscape(x)

(***************************************************************************)
(* WHERE compiler: the static tables of whereItemQuery                     *)
(***************************************************************************)
comparatorMap ==
  [k \in {"$eq", "$ne", "$gte", "$gt", "$lte", "$lt", "$not", "$is", "$like",
          "$notLike", "$iLike", "$notILike", "$between", "$notBetween",
          "$overlap", "$contains", "$contained", "$adjacent", "$strictLeft",
          "$strictRight", "$noExtendRight", "$noExtendLeft"} |->
     CASE k = "$eq" -> "="
       [] k = "$ne" -> "!="
       [] k = "$gte" -> ">="
       [] k = "$gt" -> ">"
       [] k = "$lte" -> "<="
       [] k = "$lt" -> "<"
       [] k = "$not" -> "IS NOT"
       [] k = "$is" -> "IS"
       [] k = "$like" -> "LIKE"
       [] k = "$notLike" -> "NOT LIKE"
       [] k = "$iLike" -> "ILIKE"
       [] k = "$notILike" -> "NOT ILIKE"
       [] k = "$between" -> "BETWEEN"
       [] k = "$notBetween" -> "NOT BETWEEN"
       [] k = "$overlap" -> "&&"
       [] k = "$contains" -> "@>"
       [] k = "$contained" -> "<@"
       [] k = "$adjacent" -> "-|-"
       [] k = "$strictLeft" -> "<<"
       [] k = "$strictRight" -> ">>"
       [] k = "$noExtendRight" -> "&<"
       [] OTHER -> "&>"]

aliasMap ==
  [k \in {"ne", "in", "not", "notIn", "gte", "gt", "lte", "lt", "like", "ilike",
          "$ilike", "nlike", "$notlike", "notilike", "..", "between", "!..",
          "notbetween", "nbetween", "overlap", "&&", "@>", "<@"} |->
     CASE k = "ne" -> "$ne"
       [] k = "in" -> "$in"
       [] k = "not" -> "$not"
       [] k = "notIn" -> "$notIn"
       [] k = "gte" -> "$gte"
       [] k = "gt" -> "$gt"
       [] k = "lte" -> "$lte"
       [] k = "lt" -> "$lt"
       [] k = "like" -> "$like"
       [] k = "ilike" -> "$iLike"
       [] k = "$ilike" -> "$iLike"
       [] k = "nlike" -> "$notLike"
       [] k = "$notlike" -> "$notLike"
       [] k = "notilike" -> "$notILike"
       [] k = ".." -> "$between"
       [] k = "between" -> "$between"
       [] k = "!.." -> "$notBetween"
       [] k = "notbetween" -> "$notBetween"
       [] k = "nbetween" -> "$notBetween"
       [] k = "overlap" -> "$overlap"
       [] k = "&&" -> "$overlap"
       [] k = "@>" -> "$contains"
       [] OTHER -> "$contained"]

\* key = aliasMap[key] || key, for a key that is undefined, null or a string
AliasKey(key) ==
  IF key.t = "str" /\ key.v \in DOMAIN aliasMap THEN Str(aliasMap[key.v]) ELSE key

\* _.forOwn(value, (item, key) => { if (aliasMap[key]) { value[aliasMap[key]] = item;
\* delete value[key]; } }): the keys present at the start are visited in order,
\* and the object is rewritten in place
RECURSIVE AliasRewriteFrom(_, _)
AliasRewriteFrom(value, keys) ==
  IF Len(keys) = 0 THEN value
  ELSE LET k == Head(keys)
       IN IF k \in DOMAIN aliasMap
            THEN AliasRewriteFrom(
                   DeleteProp(SetProp(value, aliasMap[k], Prop(value, k)), k),
                   Tail(keys))
            ELSE AliasRewriteFrom(value, Tail(keys))

AliasRewrite(value) ==
  AliasRewriteFrom(value, [i \in 1..Len(value.v) |-> value.v[i][1]])

\* Utils.canTreatArrayAsAnd
canTreatArrayAsAnd(arr) == \A i \in 1..Len(arr.v) : IsPlainObject(arr.v[i])

\* Utils.format([sql, ...replacements]): the raw fragment
UtilsFormat(arr) ==
  IF Len(arr.v) > 0 /\ IsString(arr.v[1]) THEN <<arr.v[1].v>> ELSE <<"?">>

\* comparator.indexOf('LIKE') !== -1
HasLike(comparator) ==
  comparator \in {"LIKE", "NOT LIKE", "ILIKE", "NOT ILIKE",
                  "LIKE ANY", "NOT LIKE ANY", "ILIKE ANY", "NOT ILIKE ANY",
                  "LIKE ALL", "NOT LIKE ALL", "ILIKE ALL", "NOT ILIKE ALL"}

\* comparator.indexOf('ANY') > comparator.indexOf('LIKE'), given HasLike
AnyAfterLike(comparator) ==
  comparator \in {"LIKE ANY", "NOT LIKE ANY", "ILIKE ANY", "NOT ILIKE ANY"}

\* Utils.isColString(key): '$...$'
ColStrings == {"$t.c$"}
isColString(k) == k \in ColStrings
ColStringInner(k) == "t.c"

\* value.map(identifier => this.quoteIdentifier(identifier)).join('.')
QuotedPath(parts) == Join([i \in 1..Len(parts) |-> <<quoteIdentifier(parts[i])>>], ".")

\* binding = binding || 'AND'; if (binding.substr(0, 1) !== ' ') binding = ' '+binding+' '
\* ("" stands for an absent binding)
NormBinding(binding) ==
  CASE binding = "" -> " AND "
    [] binding = "AND" -> " AND "
    [] binding = "OR" -> " OR "
    [] OTHER -> binding

(***************************************************************************)
(* WHERE compiler: whereQuery, whereItemsQuery, whereItemQuery             *)
(* options is [prefix |-> undefined, a table name or a Literal]            *)
(***************************************************************************)
RECURSIVE whereItemsQuery(_, _, _)
RECURSIVE whereItemQuery(_, _, _)
RECURSIVE whereItemGrouping(_, _, _)
RECURSIVE whereItemNested(_, _, _)
RECURSIVE whereItemMulti(_, _, _)
RECURSIVE whereItemCompare(_, _, _)

\* lines 1298-1327: key emission and 'key <comparator> value'
whereItemEmit(key, comparator, value, options) ==
  IF Truthy(key)
    THEN LET plain == ~IsSequelizeMethod(key) /\ isColString(key.v)
         IN (IF Truthy(options.prefix) /\ ~plain
               THEN (IF IsSequelizeMethod(options.prefix)
                       THEN handleSequelizeMethod(options.prefix)
                       ELSE <<quoteTable(options.prefix, "")>>)
                    \o <<".">>
               ELSE << >>)
            \o (IF IsSequelizeMethod(key) THEN handleSequelizeMethod(key)
                ELSE QuotedPath(IF plain THEN SplitFolded(ColStringInner(key.v))
                                ELSE <<key.v>>))
            \o <<" " \o comparator \o " ">> \o value
    ELSE value

\* lines 1258-1277: the comparatorMap loop over the keys of a plain-object value
RECURSIVE ComparatorLoop(_, _, _)
ComparatorLoop(pairs, acc, options) ==
  IF Len(pairs) = 0 THEN acc
  ELSE LET k == Head(pairs)[1]
           item == Head(pairs)[2]
           c == comparatorMap[k]
       IN ComparatorLoop(Tail(pairs),
            IF k \notin DOMAIN comparatorMap
              THEN acc
            ELSE IF IsPlainObject(item) /\ Truthy(Prop(item, "$any"))
              THEN [acc EXCEPT !.comparator = c \o " ANY", !.value = Prop(item, "$any")]
            ELSE IF IsPlainObject(item) /\ Truthy(Prop(item, "$all"))
              THEN [acc EXCEPT !.comparator = c \o " ALL", !.value = Prop(item, "$all")]
            ELSE IF Truthy(item) /\ Truthy(Prop(item, "$col"))
              THEN [acc EXCEPT !.comparator = c, !.value = item,
                               !.escapeValue = FALSE,
                               !.sql = whereItemQuery(Null, item, [prefix |-> Undef])]
            ELSE [acc EXCEPT !.comparator = c, !.value = item],
            options)

\* lines 1278-1295: the comparator and the value text of the scalar comparison
\* the loop left
ScalarText(looped) ==
  LET comparator ==
        IF looped.comparator = "=" /\ IsNull(looped.value) THEN "IS"
        ELSE IF looped.comparator = "!=" /\ IsNull(looped.value) THEN "IS NOT"
        ELSE looped.comparator
      any == HasLike(comparator) /\ AnyAfterLike(comparator)
  IN [emit |-> TRUE, comparator |-> comparator,
      value |-> IF ~looped.escapeValue THEN looped.sql
                ELSE (IF any THEN <<"(">> ELSE << >>) \o escape(looped.value)
                     \o (IF any THEN <<")">> ELSE << >>)]

\* lines 1254-1296: the scalar comparison
ScalarComparison(value, options) ==
  ScalarText(IF IsPlainObject(value)
               THEN ComparatorLoop(value.v, [comparator |-> "=", value |-> value,
                                             escapeValue |-> TRUE, sql |-> << >>], options)
               ELSE [comparator |-> "=", value |-> value,
                     escapeValue |-> TRUE, sql |-> << >>])

\* the texts of a sequence's elements, escaped
EscapedList(list) == [i \in 1..Len(list) |-> escape(list[i])]

\* lines 1211-1253: keys and comparators of the list and raw operators (no
\* comparator: nothing is emitted)
whereItemOperands(value, options) ==
  LET in == Prop(value, "$in")
      notIn == Prop(value, "$notIn")
      any == Prop(value, "$any")
      all == Prop(value, "$all")
      between == Prop(value, "$between")
      notBetween == Prop(value, "$notBetween")
      list == IF Truthy(in) THEN in ELSE notIn
      vals == IF Truthy(any) /\ Truthy(Prop(any, "$values"))
                THEN Prop(any, "$values")
              ELSE IF Truthy(all) THEN Prop(all, "$values") ELSE Undef
      toEscape ==
        IF ~Truthy(value) THEN << >>
        ELSE IF Truthy(in) \/ Truthy(notIn)
          THEN IF IsArray(list) THEN list.v ELSE << >>
        ELSE IF Truthy(any) \/ Truthy(all)
          THEN IF Truthy(vals) THEN vals.v ELSE <<IF Truthy(any) THEN any ELSE all>>
        ELSE IF Truthy(between) \/ Truthy(notBetween)
          THEN (IF Truthy(between) THEN between ELSE notBetween).v
        ELSE << >>
      Operands(escaped) ==
        IF Truthy(value) /\ (Truthy(in) \/ Truthy(notIn))
          THEN [comparator |-> IF Truthy(notIn) THEN "NOT IN" ELSE "IN",
                value |-> IF IsSequelizeMethod(list) THEN list.v
                          ELSE IF IsArray(list) /\ Len(list.v) > 0
                            THEN <<"(">> \o Join(escaped, ", ") \o <<")">>
                          ELSE <<"(NULL)">>,
                emit |-> \/ IsSequelizeMethod(list)
                         \/ (IsArray(list) /\ Len(list.v) > 0)
                         \/ Truthy(in)]
        ELSE IF Truthy(value) /\ (Truthy(any) \/ Truthy(all))
          THEN [comparator |-> IF Truthy(any) THEN "= ANY" ELSE "= ALL",
                value |-> IF Truthy(vals)
                            THEN <<"(VALUES ">>
                                 \o Join([i \in 1..Len(escaped) |->
                                            <<"(">> \o escaped[i] \o <<")">>], ", ")
                                 \o <<")">>
                            ELSE <<"(">> \o escaped[1] \o <<")">>,
                emit |-> TRUE]
        ELSE IF Truthy(value) /\ (Truthy(between) \/ Truthy(notBetween))
          THEN [comparator |-> IF Truthy(notBetween) THEN "NOT BETWEEN" ELSE "BETWEEN",
                value |-> Join(escaped, " AND "), emit |-> TRUE]
        ELSE IF Truthy(value) /\ Truthy(Prop(value, "$raw"))
          THEN [comparator |-> "=", value |-> <<Prop(value, "$raw").v>>, emit |-> TRUE]
        ELSE IF Truthy(value) /\ Truthy(Prop(value, "$col"))
          THEN [comparator |-> "=",
                value |-> QuotedPath(SplitFolded(Prop(value, "$col").v)), emit |-> TRUE]
        ELSE ScalarComparison(value, options)
  IN Operands(EscapedList(toEscape))

\* lines 1211-1327: 'key <comparator> value'
whereItemCompare(key, value, options) ==
  LET Emit(c) == IF c.emit THEN whereItemEmit(key, c.comparator, c.value, options) ELSE << >>
  IN Emit(whereItemOperands(value, options))

\* lines 1193-1209: [] to $in, $not: [] to $notIn, $not: x to $ne
whereItemNormalize(value) ==
  LET v1 == IF Truthy(value)
              THEN IF IsArray(value) THEN Obj(<< <<"$in", value>> >>)
                   ELSE IF IsArray(Prop(value, "$not"))
                     THEN DeleteProp(SetProp(value, "$notIn", Prop(value, "$not")), "$not")
                   ELSE value
              ELSE value
      not == Prop(v1, "$not")
  IN IF Truthy(v1) /\ ~IsUndefined(not) /\ not.t \notin {"null", "bool"}
       THEN DeleteProp(SetProp(v1, "$ne", not), "$not")
       ELSE v1

\* lines 1181-1191: one conjunct per operator of a multi-key mapping
whereItemMulti(key, value, options) ==
  IF IsPlainObject(value) /\ Len(value.v) > 1
    THEN <<"(">>
         \o Join([i \in 1..Len(value.v) |->
                    whereItemQuery(key, Obj(<<value.v[i]>>), options)], " AND ")
         \o <<")">>
    ELSE whereItemCompare(key, whereItemNormalize(value), options)

\* lines 1087-1101: $or / $and under an attribute key
whereItemNested(key, value, options) ==
  IF Truthy(value) /\ (Truthy(Prop(value, "$or")) \/ Truthy(Prop(value, "$and")))
    THEN LET binding == IF Truthy(Prop(value, "$or")) THEN " OR " ELSE " AND "
             inner == IF Truthy(Prop(value, "$or")) THEN Prop(value, "$or")
                      ELSE Prop(value, "$and")
             list == IF IsPlainObject(inner)
                       THEN [i \in 1..Len(inner.v) |-> Obj(<<inner.v[i]>>)]
                       ELSE inner.v
             Bound(items) ==
               IF Len(items) > 0 THEN <<"(">> \o Join(items, binding) \o <<")">> ELSE << >>
         IN Bound(NonEmpty([i \in 1..Len(list) |-> whereItemQuery(key, list[i], options)]))
    ELSE whereItemMulti(key, value, options)

\* lines 1054-1085: OR/AND/NOT grouping
whereItemGrouping(key, value, options) ==
  IF IsString(key) /\ key.v \in {"$or", "$and", "$not"}
    THEN LET binding == IF key.v = "$or" THEN " OR " ELSE " AND "
             outerBinding == IF key.v = "$not" THEN <<"NOT ">> ELSE << >>
         IN IF IsArray(value)
              THEN LET items ==
                         NonEmpty([i \in 1..Len(value.v) |->
                           LET item == value.v[i]
                               itemQuery == whereItemsQuery(item, options, " AND ")
                           IN IF (IsArray(item) \/ IsPlainObject(item)) /\ Size(item) > 1
                                THEN <<"(">> \o itemQuery \o <<")">>
                                ELSE itemQuery])
                   IN IF key.v \in {"$or", "$not"} /\ Len(items) = 0
                        THEN <<"0 = 1">>
                      ELSE IF Len(items) > 0
                        THEN outerBinding \o <<"(">> \o Join(items, binding) \o <<")">>
                      ELSE << >>
              ELSE LET inner == whereItemsQuery(value, options, binding)
                   IN IF key.v \in {"$or", "$not"} /\ Len(inner) = 0
                        THEN <<"0 = 1">>
                      ELSE IF Len(inner) > 0
                        THEN outerBinding \o <<"(">> \o inner \o <<")">>
                      ELSE << >>
    ELSE whereItemNested(key, value, options)

\* lines 948-1053: alias map, raw fragment, single-entry unwrapping, Expression
\* node, top-level sequence
whereItemQuery(key0, value0, options) ==
  LET key1 == AliasKey(key0)
      value1 == IF IsPlainObject(value0) THEN AliasRewrite(value0) ELSE value0
  IN IF IsUndefined(key1) /\ IsString(value1)
       THEN <<value1.v>>
       ELSE LET unwrap == IsUndefined(key1) /\ IsPlainObject(value1) /\ Size(value1) = 1
                key == IF unwrap THEN Str(value1.v[1][1]) ELSE key1
                value == IF unwrap THEN value1.v[1][2] ELSE value1
                topLevel == IsUndefined(key) /\ IsArray(value)
            IN IF Truthy(value) /\ IsSequelizeMethod(value)
                 THEN handleSequelizeMethod(value)
               ELSE IF topLevel /\ ~canTreatArrayAsAnd(value)
                 THEN UtilsFormat(value)
               ELSE whereItemGrouping(IF topLevel THEN Str("$and") ELSE key, value, options)

\* lines 918-947
whereItemsQuery(where, options, binding) ==
  IF \/ (IsArray(where) /\ Len(where.v) = 0)
     \/ (IsPlainObject(where) /\ Len(where.v) = 0)
     \/ IsNull(where)
     \/ IsUndefined(where)
    THEN << >>
  ELSE IF IsString(where)
    THEN <<ErrRawWhere>>
  ELSE LET entries ==
             IF IsPlainObject(where)
               THEN [i \in 1..Len(where.v) |-> <<Str(where.v[i][1]), where.v[i][2]>>]
               ELSE << <<Undef, where>> >>
       IN Join(NonEmpty([i \in 1..Len(entries) |->
                 whereItemQuery(entries[i][1], entries[i][2], options)]),
               NormBinding(binding))

\* The compiler rewrites the condition objects it is handed in place (lines
\* 1022-1029, 1200-1208).  whereItemAfter is the value object whereItemQuery
\* was called with as the caller finds it afterwards, whereItemsAfter the same
\* for whereItemsQuery.
RECURSIVE whereItemsAfter(_)
RECURSIVE whereItemAfter(_, _)
RECURSIVE whereItemRestAfter(_, _)

\* the object each entry's value refers to after whereItemQuery(key, {k: item})
\* ran on a fresh one-entry wrapper (lines 1095, 1185-1187)
WrappedAfter(key, m) ==
  Obj([i \in 1..Len(m.v) |->
         <<m.v[i][1], whereItemAfter(key, Obj(<<m.v[i]>>)).v[1][2]>>])

\* from line 1042 on
whereItemRestAfter(key, value) ==
  IF Truthy(value) /\ IsSequelizeMethod(value) THEN value
  ELSE IF (IsUndefined(key) /\ IsArray(value) /\ canTreatArrayAsAnd(value))
          \/ (IsString(key) /\ key.v \in {"$or", "$and", "$not"})
    THEN IF IsArray(value)
           THEN Arr([i \in 1..Len(value.v) |-> whereItemsAfter(value.v[i])])
           ELSE whereItemsAfter(value)
  ELSE IF Truthy(value) /\ (Truthy(Prop(value, "$or")) \/ Truthy(Prop(value, "$and")))
    THEN LET name == IF Truthy(Prop(value, "$or")) THEN "$or" ELSE "$and"
             inner == Prop(value, name)
         IN SetProp(value, name,
                    IF IsPlainObject(inner)
                      THEN WrappedAfter(key, inner)
                      ELSE Arr([i \in 1..Len(inner.v) |-> whereItemAfter(key, inner.v[i])]))
  ELSE IF IsPlainObject(value) /\ Len(value.v) > 1
    THEN WrappedAfter(key, value)
  ELSE IF IsPlainObject(value)
    THEN whereItemNormalize(value)
  ELSE value

whereItemAfter(key0, value0) ==
  LET key1 == AliasKey(key0)
      value1 == IF IsPlainObject(value0) THEN AliasRewrite(value0) ELSE value0
  IN IF IsUndefined(key1) /\ IsPlainObject(value1) /\ Size(value1) = 1
       THEN Obj(<< <<value1.v[1][1],
                     whereItemRestAfter(Str(value1.v[1][1]), value1.v[1][2])>> >>)
       ELSE whereItemRestAfter(key1, value1)

whereItemsAfter(where) ==
  IF \/ (IsArray(where) /\ Len(where.v) = 0)
     \/ (IsPlainObject(where) /\ Len(where.v) = 0)
     \/ IsNull(where)
     \/ IsUndefined(where)
     \/ IsString(where)
    THEN where
  ELSE IF IsPlainObject(where)
    THEN Obj([i \in 1..Len(where.v) |->
                <<where.v[i][1], whereItemAfter(Str(where.v[i][1]), where.v[i][2])>>])
    ELSE whereItemAfter(Undef, where)

\* whereQuery with the prefix put before whatever whereItemsQuery returns
whereQueryAlwaysPrefixed(where, options) ==
  <<"WHERE ">> \o whereItemsQuery(where, options, "")

\* lines 911-917
whereQuery(where, options) ==
  LET Prefixed(query) == IF Len(query) > 0 THEN <<"WHERE ">> \o query ELSE << >>
  IN Prefixed(whereItemsQuery(where, options, ""))

(***************************************************************************)
(* Requests to the WHERE compiler                                          *)
(***************************************************************************)
MaxOps == 2   \* operator keys in one value mapping
MaxSeq == 2   \* elements of an $or / $and / $not sequence

NoOptions == [prefix |-> Undef]
WhereOptions == {NoOptions, [prefix |-> Str("users")]}

\* canonical spelling of an operator key
Canon(k) == IF k \in DOMAIN aliasMap THEN aliasMap[k] ELSE k

OpEntries ==
  { <<"$eq", Null>>, <<"$eq", Undef>>, <<"$ne", Null>>, <<"$ne", Undef>>,
    <<"ne", Num(1)>>, <<"gte", Num(18)>>, <<"$gte", Num(18)>>, <<"$lt", Num(65)>>,
    <<"$like", Str("A%")>>, <<"$in", Arr(<< >>)>>, <<"$in", Arr(<<Num(1)>>)>>,
    <<"$notIn", Arr(<< >>)>> }

\* value mappings of 1..MaxOps operator keys, no operator twice
OpMaps ==
  UNION { { m \in [1..n -> OpEntries] :
              \A i, j \in 1..n : i # j => Canon(m[i][1]) # Canon(m[j][1]) } :
          n \in 1..MaxOps }

AttrValues ==
  {Null, Undef, Num(1), Str("x"), Arr(<< >>), Arr(<<Num(1), Num(2)>>)}
    \cup {Obj(m) : m \in OpMaps}

SmallValues == {Num(1), Null, Obj(<< <<"$notIn", Arr(<< >>)>> >>)}

AttrMappings ==
  {Obj(<< <<k, v>> >>) : k \in {"a", "ne"}, v \in AttrValues}
    \cup {Obj(<< <<"a", v>>, <<"b", w>> >>) : v, w \in SmallValues}

\* the conditions that occur as elements of a sequence
Elements ==
  { Obj(<< >>),
    Obj(<< <<"a", Num(1)>> >>),
    Obj(<< <<"a", Null>>, <<"b", Num(1)>> >>),
    Obj(<< <<"a", Obj(<< <<"$notIn", Arr(<< >>)>> >>)>> >>),
    Obj(<< <<"a", Obj(<< <<"$notIn", Arr(<< >>)>> >>)>>,
           <<"b", Obj(<< <<"$notIn", Arr(<< >>)>> >>)>> >>),
    Obj(<< <<"$and", Arr(<< >>)>> >>),
    Obj(<< <<"$or", Arr(<< >>)>> >>) }

ElementSeqs == UNION { [1..n -> Elements] : n \in 0..MaxSeq }

Groupings ==
  {Obj(<< <<g, Arr(s)>> >>) : g \in {"$or", "$and", "$not"}, s \in ElementSeqs}
    \cup {Obj(<< <<g, e>> >>) : g \in {"$or", "$and", "$not"}, e \in Elements}
    \cup {Obj(<< <<"a", Num(1)>>, <<g, Arr(s)>> >>) :
            g \in {"$or", "$and", "$not"}, s \in ElementSeqs}

WhereInputs ==
  {Null, Undef, Str("a = 1")} \cup {Arr(s) : s \in ElementSeqs}
    \cup AttrMappings \cup Groupings

(***************************************************************************)
(* JSON traversal (part_000, lines 1103-1179): whereItemQuery(key, value,  *)
(* options) for a key whose field type is JSON and a value mapping.  A     *)
(* path segment is a property name, with '::type' after it when the caller *)
(* names the cast.                                                         *)
(***************************************************************************)
\* segment.split('::')
CastSplit(segment) ==
  CASE segment = "n::text" -> [name |-> "n", cast |-> "text"]
    [] OTHER -> [name |-> segment, cast |-> ""]

\* prop.indexOf('$') === 0, for the property names in use
DollarKeys == {"$gt", "$lt", "$eq", "$ne"}

\* lines 1125-1141: the cast castKey takes from a leaf when none is set yet
InferredCast(item) ==
  CASE item.t = "num" -> "double precision"
    [] item.t = "bool" -> "boolean"
    [] OTHER -> ""

\* lines 1113-1123: '(' + [prefix.] + quoted key + #>>'{path}' + ')'
JsonBaseKey(key, path, options) ==
  "("
  \o (IF Truthy(options.prefix)
        THEN (IF IsSequelizeMethod(options.prefix)
                THEN ConcatAll(handleSequelizeMethod(options.prefix))
                ELSE quoteTable(options.prefix, ""))
             \o "."
        ELSE "")
  \o quoteIdentifier(key) \o "#>>'{"
  \o ConcatAll(Join([i \in 1..Len(path) |-> <<path[i]>>], ", ")) \o "}'"
  \o ")"

CastKey(baseKey, cast) == IF cast # "" THEN baseKey \o "::" \o cast ELSE baseKey

RECURSIVE traverse(_, _, _, _)
RECURSIVE traverseOwn(_, _, _, _, _, _)

\* lines 1143-1152: the loop over the properties of a mapping item; cast and
\* where are $cast and $where of the enclosing traverse call as the
\* properties before left them
traverseOwn(key, entries, path, cast, where, options) ==
  IF Len(entries) = 0 THEN << >>
  ELSE LET prop == Head(entries)[1]
           item == Head(entries)[2]
           where1 == SetProp(where, prop, item)
           cast1 == IF cast # "" THEN cast ELSE InferredCast(item)
       IN IF prop \in DollarKeys
            THEN <<whereItemQuery(Lit(<<CastKey(JsonBaseKey(key, path, options), cast1)>>),
                                  where1, [prefix |-> Undef])>>
                 \o traverseOwn(key, Tail(entries), path, cast1, where1, options)
            ELSE traverse(key, item, Append(path, prop), options)
                 \o traverseOwn(key, Tail(entries), path, cast, where, options)

\* lines 1105-1160: the conjuncts of one property of the value
traverse(key, item, path0, options) ==
  LET split == CastSplit(path0[Len(path0)])
      path == [path0 EXCEPT ![Len(path0)] = split.name]
  IN IF IsPlainObject(item)
       THEN traverseOwn(key, item.v, path, split.cast, Obj(<< >>), options)
       ELSE <<whereItemQuery(
                Lit(<<CastKey(JsonBaseKey(key, path, options),
                              IF split.cast # "" THEN split.cast ELSE InferredCast(item))>>),
                Obj(<< <<"$eq", item>> >>), [prefix |-> Undef])>>

\* lines 1103-1179
whereItemJson(key, value, options) ==
  LET items == [i \in 1..Len(value.v) |->
                  IF value.v[i][1] \in DollarKeys
                    THEN <<whereItemQuery(Str(key), Obj(<<value.v[i]>>), options)>>
                    ELSE traverse(key, value.v[i][2], <<value.v[i][1]>>, options)]
      all == JoinEmpty(items)
  IN IF Len(all) > 1 THEN <<"(">> \o Join(all, " AND ") \o <<")">>
     ELSE Join(all, " AND ")

\* the leaves of JSON values: scalars and mappings of operators
JsonOperators ==
  { <<"$gt", Num(5)>>, <<"$lt", Str("x")>>, <<"$ne", Bool(TRUE)>>, <<"$lt", Num(7)>> }

JsonLeaves ==
  {Num(5), Str("x"), Bool(TRUE)}
    \cup {Obj(<<e>>) : e \in JsonOperators}
    \cup {Obj(<<p[1], p[2]>>) :
            p \in {q \in JsonOperators \X JsonOperators : q[1][1] # q[2][1]}}

\* JSON values of one or two properties, a property holding a leaf or a
\* mapping of one property with a leaf
JsonValues ==
  {Obj(<< <<k, v>> >>) : k \in {"a", "n::text"}, v \in JsonLeaves}
    \cup {Obj(<< <<"a", Obj(<< <<k, v>> >>)>> >>) : k \in {"b", "n::text"}, v \in JsonLeaves}
    \cup {Obj(<< <<"a", v>>, <<"b", w>> >>) : v, w \in {Num(5), Str("x"), Obj(<< <<"$gt", Num(5)>>, <<"$lt", Str("x")>> >>)}}

InitWhere ==
  /\ pc = "call"
  /\ result = NoResult
  /\ dialect = BaseDialect
  /\ \/ \E w \in WhereInputs, o \in WhereOptions :
          \/ op = "whereQuery" /\ args = [where |-> w, options |-> o, binding |-> ""]
          \/ /\ op = "whereItemsQuery"
             /\ \E b \in {"", "OR"} : args = [where |-> w, options |-> o, binding |-> b]
     \/ \E v \in JsonValues, o \in WhereOptions :
          /\ op = "whereItemQuery"
          /\ args = [key |-> "meta", where |-> v, options |-> o]
  /\ heap = [where |-> args.where]

WhereQuery ==
  /\ pc = "call"
  /\ op = "whereQuery"
  /\ result' = Returned(whereQuery(args.where, args.options))
  /\ heap' = [where |-> whereItemsAfter(args.where)]
  /\ pc' = "done"
  /\ UNCHANGED <<op, args, dialect>>

WhereItemsQuery ==
  /\ pc = "call"
  /\ op = "whereItemsQuery"
  /\ result' = Returned(whereItemsQuery(args.where, args.options, args.binding))
  /\ heap' = [where |-> whereItemsAfter(args.where)]
  /\ pc' = "done"
  /\ UNCHANGED <<op, args, dialect>>

\* whereItemQuery on a JSON column
WhereItemQuery ==
  /\ pc = "call"
  /\ op = "whereItemQuery"
  /\ result' = Returned(whereItemJson(args.key, args.where, args.options))
  /\ pc' = "done"
  /\ UNCHANGED <<op, args, dialect, heap>>

NextWhere == WhereQuery \/ WhereItemsQuery \/ WhereItemQuery

SpecWhere == InitWhere /\ [][NextWhere]_vars

(***************************************************************************)
(* Properties of the WHERE compiler                                        *)
(***************************************************************************)
WhereDone == pc = "done" /\ op \in {"whereQuery", "whereItemsQuery"}

\* C1: whereQuery(X, opts) is the empty text when whereItemsQuery(X, opts) is
\* empty (in particular for {}, [], null and undefined), otherwise 'WHERE '
\* followed by whereItemsQuery(X, opts), and it raises what whereItemsQuery
\* raises; it is never a bare 'WHERE '.
WhereQueryPrefixesItems ==
  (pc = "done" /\ op = "whereQuery") =>
    LET items == Returned(whereItemsQuery(args.where, args.options, ""))
    IN /\ items.kind = "error" => result = items
       /\ (items.kind = "text" /\ items.sql = << >>) => result = items
       /\ (items.kind = "text" /\ items.sql # << >>) =>
            /\ result.kind = "text"
            /\ result.sql = <<"WHERE ">> \o items.sql
       /\ result.sql # <<"WHERE ">>
       /\ (\/ args.where.t \in {"null", "undef"}
           \/ (args.where.t \in {"obj", "arr"} /\ Len(args.where.v) = 0)) =>
            result = Returned(<< >>)

\* C1 witness: a non-empty mapping that lowers to nothing has been given to
\* whereQuery, which returned the empty text
WhereQueryEmptyWitness ==
  /\ pc = "done"
  /\ op = "whereQuery"
  /\ IsPlainObject(args.where)
  /\ Len(args.where.v) > 0
  /\ result = Returned(<< >>)

\* every element of the sequence lowers to the empty fragment
AllElementsEmpty(seq, options) ==
  \A i \in 1..Len(seq) : whereItemsQuery(seq[i], options, " AND ") = << >>

\* C2: {$or: s} and {$not: s} lower to exactly '0 = 1' when s is empty or every
\* element of s lowers to the empty fragment; an $and whose sequence is empty or
\* lowers to nothing contributes no text to the result.
EmptyGroupingLowering ==
  (pc = "done" /\ op = "whereItemsQuery" /\ IsPlainObject(args.where)) =>
    LET w == args.where.v
        last == w[Len(w)]
    IN (Len(w) > 0 /\ IsArray(last[2]) /\ AllElementsEmpty(last[2].v, args.options)) =>
         /\ (Len(w) = 1 /\ last[1] \in {"$or", "$not"}) => result = Returned(<<"0 = 1">>)
         /\ last[1] = "$and" =>
              result = Returned(whereItemsQuery(Obj(SubSeq(w, 1, Len(w) - 1)),
                                                args.options, args.binding))

\* the operator keys of a mapping and of its first-level value mappings in
\* their canonical spelling, each at the position of the key it replaces
CanonicalKeys(m) == Obj([i \in 1..Len(m.v) |-> <<Canon(m.v[i][1]), m.v[i][2]>>])

Canonical(m) ==
  IF IsPlainObject(m)
    THEN Obj([i \in 1..Len(m.v) |->
           <<Canon(m.v[i][1]),
             IF IsPlainObject(m.v[i][2]) THEN CanonicalKeys(m.v[i][2]) ELSE m.v[i][2]>>])
    ELSE m

\* C3: whereItemsQuery(M) is the same text as whereItemsQuery(canonical(M)),
\* also when a value mapping mixes aliased and canonical operator keys.
AliasSpellingIrrelevant ==
  (pc = "done" /\ op = "whereItemsQuery") =>
    result = Returned(whereItemsQuery(Canonical(args.where), args.options, args.binding))

\* C10: the WHERE compiler never emits '= NULL' or '!= NULL': a value the
\* escaper renders as NULL is compared with IS / IS NOT.
NeverEqualsNull ==
  (WhereDone /\ result.kind = "text") =>
    \A i \in 1..(Len(result.sql) - 1) :
      ~(result.sql[i] \in {" = ", " != "} /\ result.sql[i + 1] = "NULL")

\* C16: whereQuery and whereItemsQuery leave the caller's condition tree as it
\* was: after the call, returned or raised, every mapping of the input has the
\* same keys in the same order with the same values.
WhereInputUnchanged ==
  WhereDone => heap.where = args.where

\* a joining token with nothing on one of its sides
Dangling(text, i) ==
  /\ text[i] \in {" AND ", " OR "}
  /\ \/ i = 1
     \/ i = Len(text)
     \/ text[i - 1] \in {"(", "WHERE ", " AND ", " OR "}
     \/ text[i + 1] \in {")", " AND ", " OR "}

EmptyNotIn == Obj(<< <<"$notIn", Arr(<< >>)>> >>)

\* C22: an empty $in lowers to 'key IN (NULL)' and an empty $notIn removes its
\* whole conjunct: alone it gives the empty text, next to other keys and inside
\* a multi-key operator mapping it leaves only the other conjuncts, and the
\* text never holds an ' AND ' with an empty operand.
EmptyNotInOmitted ==
  (WhereDone /\ result.kind = "text") =>
    /\ \A i \in 1..Len(result.sql) : ~Dangling(result.sql, i)
    /\ (op = "whereItemsQuery" /\ args.where = Obj(<< <<"a", Obj(<< <<"$in", Arr(<< >>)>> >>)>> >>)) =>
         /\ Len(result.sql) >= 3
         /\ SubSeq(result.sql, Len(result.sql) - 1, Len(result.sql)) = <<" IN ", "(NULL)">>
    /\ (op = "whereItemsQuery" /\ args.where = Obj(<< <<"a", EmptyNotIn>> >>)) =>
         result.sql = << >>
    /\ (op = "whereItemsQuery" /\ args.where = Obj(<< <<"a", Num(1)>>, <<"b", EmptyNotIn>> >>)) =>
         result.sql = whereItemsQuery(Obj(<< <<"a", Num(1)>> >>), args.options, args.binding)
    /\ (/\ op = "whereItemsQuery"
        /\ args.where = Obj(<< <<"a", Obj(<< <<"$notIn", Arr(<< >>)>>, <<"$lt", Num(65)>> >>)>> >>)) =>
         result.sql = whereItemsQuery(Obj(<< <<"a", Obj(<< <<"$lt", Num(65)>> >>)>> >>),
                                      args.options, args.binding)

\* the binding as whereItemsQuery puts it between the conjuncts (lines 934-935)
BindingToken(binding) == IF binding = "" THEN " AND " ELSE " " \o binding \o " "

\* the value of a one-key mapping is a mapping of several operators
SeveralOperators(where) ==
  /\ IsPlainObject(where)
  /\ Len(where.v) = 1
  /\ where.v[1][1] \notin {"$or", "$and", "$not"}
  /\ IsPlainObject(where.v[1][2])
  /\ Len(where.v[1][2].v) > 1

\* C23: the conjuncts of whereItemsQuery come in the order of the caller's
\* keys: the top-level keys are lowered left to right and joined by the
\* binding, and a value mapping of several operators gives one conjunct per
\* operator in the caller's key order, joined by ' AND ' inside one pair of
\* parentheses.
ConjunctsInKeyOrder ==
  (pc = "done" /\ op = "whereItemsQuery" /\ result.kind = "text"
     /\ IsPlainObject(args.where)) =>
    LET where == args.where
        One(entry) == whereItemsQuery(Obj(<<entry>>), args.options, args.binding)
        Operator(k) ==
          One(<<where.v[1][1], Obj(<<where.v[1][2].v[k]>>)>>)
    IN /\ Len(where.v) > 1 =>
            result.sql = Join(NonEmpty([i \in 1..Len(where.v) |-> One(where.v[i])]),
                              BindingToken(args.binding))
       /\ SeveralOperators(where) =>
            result.sql = <<"(">>
                         \o Join([k \in 1..Len(where.v[1][2].v) |-> Operator(k)], " AND ")
                         \o <<")">>

\* the elements of a sequence lowered one by one, an element of several keys
\* in parentheses, the empty ones left out
LoweredElements(elements, options) ==
  NonEmpty([i \in 1..Len(elements) |->
              LET text == whereItemsQuery(elements[i], options, "AND")
              IN IF Size(elements[i]) > 1 THEN <<"(">> \o text \o <<")">> ELSE text])

\* C24: a sequence of mappings given to whereItemsQuery at top level is
\* lowered element by element and joined by the binding argument, as a
\* top-level mapping is.
SequenceJoinedByBinding ==
  (pc = "done" /\ op = "whereItemsQuery" /\ result.kind = "text"
     /\ IsArray(args.where)) =>
    LET joined == Join(LoweredElements(args.where.v, args.options),
                       BindingToken(args.binding))
    IN IF joined = << >> THEN result.sql = << >>
       ELSE result.sql \in {joined, <<"(">> \o joined \o <<")">>}

\* one conjunct per leaf below a property of a JSON value: the accessor of the
\* leaf's path, cast as the path segment says or else as the leaf's own value
\* says, compared with the leaf alone
RECURSIVE LeafConjuncts(_, _, _, _)
LeafConjuncts(key, item, path0, options) ==
  LET split == CastSplit(path0[Len(path0)])
      path == [path0 EXCEPT ![Len(path0)] = split.name]
      Accessor(leaf) ==
        Lit(<<CastKey(JsonBaseKey(key, path, options),
                      IF split.cast # "" THEN split.cast ELSE InferredCast(leaf))>>)
  IN IF IsPlainObject(item)
       THEN JoinEmpty([i \in 1..Len(item.v) |->
                         IF item.v[i][1] \in DollarKeys
                           THEN <<whereItemQuery(Accessor(item.v[i][2]), Obj(<<item.v[i]>>),
                                                 [prefix |-> Undef])>>
                           ELSE LeafConjuncts(key, item.v[i][2],
                                              Append(path, item.v[i][1]), options)])
       ELSE <<whereItemQuery(Accessor(item), Obj(<< <<"$eq", item>> >>),
                             [prefix |-> Undef])>>

\* C29: in JSON traversal every leaf of the value gives exactly one conjunct,
\* whose accessor is cast by the '::type' of its path segment or else by the
\* leaf's own value (number, boolean, otherwise none); the conjunct and the
\* cast of a leaf do not depend on the leaves beside it or on their order.
JsonLeafOwnConjunct ==
  (pc = "done" /\ op = "whereItemQuery" /\ result.kind = "text") =>
    LET value == args.where.v
        conjuncts == JoinEmpty([i \in 1..Len(value) |->
                                  LeafConjuncts(args.key, value[i][2], <<value[i][1]>>,
                                                args.options)])
    IN result.sql = IF Len(conjuncts) > 1
                      THEN <<"(">> \o Join(conjuncts, " AND ") \o <<")">>
                      ELSE Join(conjuncts, " AND ")

(***************************************************************************)
(* insertQuery (queries/insert.js)                                         *)
(* valueHash is an ordered list of <<key, value>>; modelAttributes is an   *)
(* ordered list of [name, field, autoIncrement, virtual] or << >> when the *)
(* caller passes none; options is [returning, hasTrigger, exception,       *)
(* onDuplicate, ignore].  d is the dialect.                                *)
(***************************************************************************)
\* !value
Falsy(x) == ~Truthy(x)

\* semver.gte(a, b) on <<major, minor, patch>>
SemverGte(a, b) ==
  \/ a[1] > b[1]
  \/ (a[1] = b[1] /\ a[2] > b[2])
  \/ (a[1] = b[1] /\ a[2] = b[2] /\ a[3] >= b[3])

\* Utils.removeNullValuesFromHash(hash, omitNull)
removeNullValuesFromHash(hash, omitNull) ==
  IF omitNull
    THEN SelectSeq(hash, LAMBDA p : p[2].t \notin {"null", "undef"})
    ELSE hash

\* modelAttributeMap[key]: the attribute named key or stored in field key
HasModelAttribute(modelAttributes, key) ==
  \E i \in 1..Len(modelAttributes) :
    modelAttributes[i].name = key \/ modelAttributes[i].field = key

IsAutoIncrement(modelAttributes, key) ==
  \E i \in 1..Len(modelAttributes) :
    /\ modelAttributes[i].name = key \/ modelAttributes[i].field = key
    /\ modelAttributes[i].autoIncrement

\* the loop without line 111: an unset auto-increment column keeps its place
\* in the column list although no value is pushed for it
RECURSIVE insertLoopNoSplice(_, _, _, _)
insertLoopNoSplice(d, hash, modelAttributes, acc) ==
  IF Len(hash) = 0 THEN acc
  ELSE LET key == Head(hash)[1]
           value == Head(hash)[2]
           pushed == Append(acc.fields, quoteIdentifier(key))
           next ==
             IF IsAutoIncrement(modelAttributes, key) /\ Falsy(value)
               THEN IF ~d.autoIncDefaultValue
                      THEN [acc EXCEPT !.fields = pushed]
                    ELSE IF d.default
                      THEN [acc EXCEPT !.fields = pushed,
                                       !.values = Append(acc.values, <<"DEFAULT">>)]
                    ELSE [acc EXCEPT !.fields = pushed,
                                     !.values = Append(acc.values, escape(Null))]
               ELSE [acc EXCEPT !.fields = pushed,
                                !.values = Append(acc.values, escape(value)),
                                !.identity = acc.identity
                                             \/ IsAutoIncrement(modelAttributes, key)]
       IN insertLoopNoSplice(d, Tail(hash), modelAttributes, next)

\* lines 103-125: the loop over the value hash; acc is [fields, values, identity]
RECURSIVE insertLoop(_, _, _, _)
insertLoop(d, hash, modelAttributes, acc) ==
  IF Len(hash) = 0 THEN acc
  ELSE LET key == Head(hash)[1]
           value == Head(hash)[2]
           pushed == Append(acc.fields, quoteIdentifier(key))
           next ==
             IF IsAutoIncrement(modelAttributes, key) /\ Falsy(value)
               THEN IF ~d.autoIncDefaultValue
                      THEN [acc EXCEPT !.fields = SubSeq(pushed, 1, Len(pushed) - 1)]
                    ELSE IF d.default
                      THEN [acc EXCEPT !.fields = pushed,
                                       !.values = Append(acc.values, <<"DEFAULT">>)]
                    ELSE [acc EXCEPT !.fields = pushed,
                                     !.values = Append(acc.values, escape(Null))]
               ELSE [acc EXCEPT !.fields = pushed,
                                !.values = Append(acc.values, escape(value)),
                                !.identity = acc.identity
                                             \/ IsAutoIncrement(modelAttributes, key)]
       IN insertLoop(d, Tail(hash), modelAttributes, next)

\* lines 47-76: the columns of the @tmp table and of the OUTPUT clause
TmpColumns(modelAttributes) ==
  LET real == SelectSeq(modelAttributes, LAMBDA a : ~a.virtual)
  IN Join([i \in 1..Len(real) |-> <<quoteIdentifier(real[i].field) \o " " \o "TYPE">>], ",")

OutputColumns(modelAttributes) ==
  LET real == SelectSeq(modelAttributes, LAMBDA a : ~a.virtual)
  IN Join([i \in 1..Len(real) |-> <<"INSERTED." \o quoteIdentifier(real[i].field)>>], ",")

insertQuery(d, table, valueHash, modelAttributes, options) ==
  LET returns == d.returnValues # "none" /\ options.returning
      trigger == /\ returns
                 /\ d.returnValues = "output"
                 /\ Len(modelAttributes) > 0
                 /\ options.hasTrigger
                 /\ d.tmpTableTrigger
      tmpTable == IF trigger
                    THEN <<"declare @tmp table (">> \o TmpColumns(modelAttributes)
                         \o <<")", ";">>
                    ELSE << >>
      outputFragment ==
        IF returns /\ d.returnValues = "output"
          THEN IF trigger
                 THEN <<" OUTPUT ">> \o OutputColumns(modelAttributes) \o <<" into @tmp">>
                 ELSE <<" OUTPUT INSERTED.*">>
          ELSE << >>
      looped == insertLoop(d, removeNullValuesFromHash(valueHash, d.omitNull),
                           modelAttributes,
                           [fields |-> << >>, values |-> << >>, identity |-> FALSE])
      attributes == Join([i \in 1..Len(looped.fields) |-> <<looped.fields[i]>>], ",")
      values == Join(looped.values, ",")
      ignore == IF options.ignore /\ d.ignore # "" THEN <<d.ignore>> ELSE << >>
      tail == (IF returns /\ d.returnValues = "returning" THEN <<" RETURNING *">> ELSE << >>)
              \o (IF trigger THEN <<";", "select * from @tmp">> ELSE << >>)
      \* lines 18, 41, 74
      valueQuery0 == tmpTable \o <<"INSERT">> \o ignore \o <<" INTO ", quoteTable(Str(table), ""), " (">>
                     \o attributes \o <<")">> \o outputFragment
                     \o <<" VALUES (">> \o values \o <<")">> \o tail
      \* lines 19, 33-37, 42, 75
      emptyQuery0 == tmpTable \o <<"INSERT">> \o ignore \o <<" INTO ", quoteTable(Str(table), "")>>
                     \o outputFragment
                     \o (IF d.defaultValues THEN <<" DEFAULT VALUES">>
                         ELSE IF d.valuesEmpty THEN <<" VALUES ()">> ELSE << >>)
                     \o tail
      \* lines 80-95
      valueQuery1 ==
        IF d.exception /\ options.exception # ""
          THEN IF SemverGte(d.databaseVersion, <<9, 2, 0>>)
                 THEN <<"CREATE OR REPLACE FUNCTION pg_temp.testfunc(OUT response ",
                        quoteTable(Str(table), ""),
                        ", OUT sequelize_caught_exception text) RETURNS RECORD AS ",
                        "$func_uuid$", " BEGIN ">>
                      \o valueQuery0
                      \o <<" INTO response", ";", " EXCEPTION ",
                           "WHEN unique_violation THEN GET STACKED DIAGNOSTICS sequelize_caught_exception = PG_EXCEPTION_DETAIL",
                           ";", " END ", "$func_uuid$", " LANGUAGE plpgsql", ";",
                           " SELECT (testfunc.response).*, testfunc.sequelize_caught_exception FROM pg_temp.testfunc()",
                           ";", " DROP FUNCTION IF EXISTS pg_temp.testfunc()">>
                 ELSE <<"CREATE OR REPLACE FUNCTION pg_temp.testfunc() RETURNS SETOF ",
                        quoteTable(Str(table), ""), " AS $body$ BEGIN RETURN QUERY ">>
                      \o valueQuery0
                      \o <<";", " EXCEPTION ", "WHEN unique_violation THEN NULL", ";",
                           " END", ";", " $body$ LANGUAGE plpgsql", ";",
                           " SELECT * FROM pg_temp.testfunc()", ";",
                           " DROP FUNCTION IF EXISTS pg_temp.testfunc()", ";">>
          ELSE valueQuery0
      \* lines 97-100
      duplicate == IF d.onDuplicateKey /\ options.onDuplicate # ""
                     THEN <<" ON DUPLICATE KEY ", options.onDuplicate>>
                     ELSE << >>
      valueQuery == valueQuery1 \o duplicate
      emptyQuery == emptyQuery0 \o duplicate
      \* line 136
      query == (IF Len(attributes) > 0 THEN valueQuery ELSE emptyQuery) \o <<";">>
  IN IF looped.identity /\ d.identityInsert
       THEN <<"SET IDENTITY_INSERT", " ", quoteTable(Str(table), ""), " ", "ON", ";", " ">>
            \o query
            \o <<" ", "SET IDENTITY_INSERT", " ", quoteTable(Str(table), ""), " ", "OFF", ";">>
       ELSE query

(***************************************************************************)
(* Requests to insertQuery                                                 *)
(***************************************************************************)
MaxCols == 2   \* columns in one value hash

\* the model of table t: id and seq are auto-increment columns
InsertModel ==
  << [name |-> "id", field |-> "id", autoIncrement |-> TRUE, virtual |-> FALSE],
     [name |-> "seq", field |-> "seq", autoIncrement |-> TRUE, virtual |-> FALSE],
     [name |-> "name", field |-> "name", autoIncrement |-> FALSE, virtual |-> FALSE],
     [name |-> "full", field |-> "full", autoIncrement |-> FALSE, virtual |-> TRUE] >>

ColumnValues ==
  [c \in {"id", "seq", "name"} |->
     CASE c = "id" -> {Null, Num(0), Num(5)}
       [] c = "seq" -> {Null}
       [] OTHER -> {Null, Str("x")}]

ValueHashes ==
  UNION { { h \in [1..n -> UNION {{<<c, v>> : v \in ColumnValues[c]} : c \in DOMAIN ColumnValues}] :
              \A i, j \in 1..n : i # j => h[i][1] # h[j][1] } :
          n \in 0..MaxCols }

\* capability records: a flag that the code reads only under another flag
\* is varied only where it is read
InsertDialects ==
  { [BaseDialect EXCEPT
       !.defaultValues = (e = "DEFAULT VALUES"),
       !.valuesEmpty = (e = "VALUES ()"),
       !.returnValues = r[1],
       !.tmpTableTrigger = r[2],
       !.exception = (x[1] > 0),
       !.databaseVersion = IF x[1] = 1 THEN <<9, 1, 9>> ELSE <<9, 2, 0>>,
       !.onDuplicateKey = x[2],
       !.ignore = IF x[2] THEN " IGNORE" ELSE "",
       !.autoIncDefaultValue = a[1],
       !.default = a[2],
       !.identityInsert = a[3],
       !.omitNull = n] :
      e \in {"DEFAULT VALUES", "VALUES ()", "none"},
      r \in {<<"none", FALSE>>, <<"returning", FALSE>>, <<"output", FALSE>>, <<"output", TRUE>>},
      x \in {<<0, FALSE>>, <<1, FALSE>>, <<2, FALSE>>, <<0, TRUE>>},
      a \in {<<FALSE, FALSE, FALSE>>, <<TRUE, FALSE, FALSE>>, <<TRUE, TRUE, FALSE>>,
             <<TRUE, TRUE, TRUE>>, <<FALSE, TRUE, FALSE>>, <<FALSE, TRUE, TRUE>>},
      n \in BOOLEAN }

InsertOptions(d) ==
  { [returning |-> r[1], hasTrigger |-> r[2], exception |-> x, onDuplicate |-> k,
     ignore |-> k # ""] :
      r \in {rr \in {<<FALSE, FALSE>>, <<TRUE, FALSE>>, <<TRUE, TRUE>>} :
               /\ rr[1] => d.returnValues # "none"
               /\ rr[2] => d.tmpTableTrigger},
      x \in IF d.exception THEN {"", "true"} ELSE {""},
      k \in IF d.onDuplicateKey THEN {"", "UPDATE name=VALUES(name)"} ELSE {""} }

InitInsert ==
  /\ pc = "call"
  /\ result = NoResult
  /\ op = "insertQuery"
  /\ dialect \in InsertDialects
  /\ \E h \in ValueHashes, o \in InsertOptions(dialect) :
       \/ args = [table |-> "t", valueHash |-> h, modelAttributes |-> InsertModel,
                  options |-> o]
       \/ /\ Len(h) = 1
          /\ args = [table |-> "t", valueHash |-> h, modelAttributes |-> << >>,
                     options |-> o]
  /\ heap = [options |-> args.options]

\* the caller's options object after the call: lines 87 and 92 overwrite
\* options.exception
InsertOptionsAfter(d, options) ==
  IF d.exception /\ options.exception # ""
    THEN [options EXCEPT !.exception =
            IF SemverGte(d.databaseVersion, <<9, 2, 0>>)
              THEN "WHEN unique_violation THEN GET STACKED DIAGNOSTICS sequelize_caught_exception = PG_EXCEPTION_DETAIL;"
              ELSE "WHEN unique_violation THEN NULL;"]
    ELSE options

InsertQuery ==
  /\ pc = "call"
  /\ op = "insertQuery"
  /\ result' = Returned(insertQuery(dialect, args.table, args.valueHash,
                                    args.modelAttributes, args.options))
  /\ heap' = [options |-> InsertOptionsAfter(dialect, args.options)]
  /\ pc' = "done"
  /\ UNCHANGED <<op, args, dialect>>

NextInsert == InsertQuery

SpecInsert == InitInsert /\ [][NextInsert]_vars

(***************************************************************************)
(* Properties of insertQuery                                               *)
(***************************************************************************)
InsertDone == pc = "done" /\ op = "insertQuery" /\ result.kind = "text"

\* the tokens of s strictly between the first token open and the next ")",
\* commas left out
Listed(s, open) ==
  LET from == CHOOSE i \in 1..Len(s) : s[i] = open /\ \A j \in 1..(i - 1) : s[j] # open
      to == CHOOSE i \in (from + 1)..Len(s) :
              s[i] = ")" /\ \A j \in (from + 1)..(i - 1) : s[j] # ")"
  IN SelectSeq(SubSeq(s, from + 1, to - 1), LAMBDA tok : tok # ",")

HasToken(s, tok) == \E i \in 1..Len(s) : s[i] = tok

\* the entries of the value hash that keep their column: not removed by
\* omitNull, and not an unset auto-increment column of a dialect without an
\* auto-increment default value
KeptEntries(d, valueHash, modelAttributes) ==
  SelectSeq(valueHash,
            LAMBDA p : /\ ~(d.omitNull /\ p[2].t \in {"null", "undef"})
                       /\ ~(/\ IsAutoIncrement(modelAttributes, p[1])
                            /\ Falsy(p[2])
                            /\ ~d.autoIncDefaultValue))

\* C6: insertQuery's statement ends with exactly one ";" and holds no ";;",
\* whatever the dialect's capabilities and the options are.
InsertOneTerminator ==
  InsertDone =>
    LET s == result.sql
    IN /\ Len(s) > 0
       /\ s[Len(s)] = ";"
       /\ \A i \in 1..(Len(s) - 1) : ~(s[i] = ";" /\ s[i + 1] = ";")

\* C8: when no column is left insertQuery emits the empty-INSERT form with
\* no column list at all; otherwise the column list and the value list have
\* the same length and the i-th value is the one of the i-th column.
InsertColumnsMatchValues ==
  InsertDone =>
    LET s == result.sql
        kept == KeptEntries(dialect, args.valueHash, args.modelAttributes)
    IN IF Len(kept) = 0
         THEN /\ ~HasToken(s, " (")
              /\ ~HasToken(s, " VALUES (")
              /\ dialect.defaultValues => HasToken(s, " DEFAULT VALUES")
              /\ (~dialect.defaultValues /\ dialect.valuesEmpty) => HasToken(s, " VALUES ()")
         ELSE /\ HasToken(s, " (") /\ HasToken(s, " VALUES (")
              /\ LET columns == Listed(s, " (")
                     values == Listed(s, " VALUES (")
                 IN /\ Len(columns) = Len(kept)
                    /\ Len(values) = Len(columns)
                    /\ \A i \in 1..Len(kept) :
                         /\ columns[i] = quoteIdentifier(kept[i][1])
                         /\ IF IsAutoIncrement(args.modelAttributes, kept[i][1])
                               /\ Falsy(kept[i][2])
                              THEN values[i] \in {"DEFAULT", "NULL"}
                              ELSE <<values[i]>> = escape(kept[i][2])

\* C8 witness: an insert whose only column is dropped, answered with the
\* empty form
InsertEmptyFormWitness ==
  /\ InsertDone
  /\ Len(args.valueHash) > 0
  /\ Len(KeptEntries(dialect, args.valueHash, args.modelAttributes)) = 0
  /\ ~dialect.omitNull
  /\ HasToken(result.sql, " DEFAULT VALUES")

\* the column list and the value list of a statement, empty in the empty form
ColumnsOf(s) == IF HasToken(s, " (") THEN Listed(s, " (") ELSE << >>

ValuesOf(s) == IF HasToken(s, " VALUES (") THEN Listed(s, " VALUES (") ELSE << >>

\* an auto-increment column supplied as null
NullAutoIncrement(modelAttributes, p) ==
  IsAutoIncrement(modelAttributes, p[1]) /\ p[2] = Null

\* C19: for an auto-increment column supplied as null, a dialect with DEFAULT
\* support keeps the column with the value DEFAULT, and the column is dropped
\* from the column list and the value list exactly when the dialect has no
\* autoIncrement.defaultValue; the other columns keep their order and values.
NullAutoIncrementDefault ==
  InsertDone =>
    LET columns == ColumnsOf(result.sql)
        values == ValuesOf(result.sql)
        others == SelectSeq(KeptEntries(dialect, args.valueHash, args.modelAttributes),
                            LAMBDA p : ~NullAutoIncrement(args.modelAttributes, p))
        At(key) == {i \in 1..Len(columns) : columns[i] = quoteIdentifier(key)}
    IN /\ Len(values) = Len(columns)
       /\ \A k \in 1..Len(args.valueHash) :
            NullAutoIncrement(args.modelAttributes, args.valueHash[k]) =>
              /\ dialect.default =>
                   \E i \in At(args.valueHash[k][1]) : values[i] = "DEFAULT"
              /\ (At(args.valueHash[k][1]) = {}) <=> ~dialect.autoIncDefaultValue
       /\ LET rest == {i \in 1..Len(columns) :
                         \A k \in 1..Len(args.valueHash) :
                           NullAutoIncrement(args.modelAttributes, args.valueHash[k]) =>
                             i \notin At(args.valueHash[k][1])}
          IN /\ Cardinality(rest) = Len(others)
             /\ \A n \in 1..Len(others) :
                  LET i == CHOOSE x \in rest : Cardinality({y \in rest : y < x}) = n - 1
                  IN /\ columns[i] = quoteIdentifier(others[n][1])
                     /\ ~IsAutoIncrement(args.modelAttributes, others[n][1]) =>
                          <<values[i]>> = escape(others[n][2])

\* the entries of a value hash that give an auto-increment column an explicit
\* value, 0 included
ExplicitAutoIncrement(valueHash, modelAttributes) ==
  {k \in 1..Len(valueHash) :
     /\ IsAutoIncrement(modelAttributes, valueHash[k][1])
     /\ valueHash[k][2].t \notin {"null", "undef"}}

IdentityWrapped(s) ==
  /\ Len(s) > 7
  /\ s[1] = "SET IDENTITY_INSERT"
  /\ s[5] = "ON"
  /\ s[Len(s) - 1] = "OFF"

\* C20: on a dialect with autoIncrement.identityInsert the INSERT is wrapped
\* in SET IDENTITY_INSERT t ON; ... SET IDENTITY_INSERT t OFF; if and only if
\* an auto-increment column is given an explicit non-null value, 0 included,
\* and such a value is emitted as its escaped literal, never DEFAULT or dropped.
IdentityInsertForExplicitValue ==
  (InsertDone /\ dialect.identityInsert) =>
    LET columns == ColumnsOf(result.sql)
        values == ValuesOf(result.sql)
        explicit == ExplicitAutoIncrement(args.valueHash, args.modelAttributes)
    IN /\ IdentityWrapped(result.sql) <=> explicit # {}
       /\ \A k \in explicit :
            \E i \in 1..Len(columns) :
              /\ columns[i] = quoteIdentifier(args.valueHash[k][1])
              /\ i <= Len(values)
              /\ <<values[i]>> = escape(args.valueHash[k][2])

(***************************************************************************)
(* Table and transaction statements (part_000)                             *)
(***************************************************************************)
\* lines 81-91
describeTableQuery(tableName, schema, schemaDelimiter) ==
  <<"DESCRIBE ", quoteTable(addSchema(tableName, schema, schemaDelimiter), ""), ";">>

\* dropTableQuery with the text left unterminated
dropTableQueryOpen(tableName) ==
  <<"DROP TABLE IF EXISTS ", quoteTable(Str(tableName), "")>>

\* lines 96-100
dropTableQuery(tableName) ==
  <<"DROP TABLE IF EXISTS ", quoteTable(Str(tableName), ""), ";">>

\* lines 108-110
renameTableQuery(before, after) ==
  <<"ALTER TABLE ", quoteTable(Str(before), ""), " RENAME TO ",
    quoteTable(Str(after), ""), ";">>

\* lines 736-747; options.parent and transaction.parent are "" when absent
setAutocommitQuery(value, options) ==
  IF options.parent # "" THEN NothingReturned
  ELSE IF IsUndefined(value) \/ IsNull(value) THEN NothingReturned
  ELSE <<"SET autocommit = ", IF Truthy(value) THEN "1" ELSE "0", ";">>

\* lines 756-762
setIsolationLevelQuery(value, options) ==
  IF options.parent # "" THEN NothingReturned
  ELSE <<"SET SESSION TRANSACTION ISOLATION LEVEL ", value, ";">>

\* lines 771-778
startTransactionQuery(transaction) ==
  IF transaction.parent # ""
    THEN <<"SAVEPOINT ", quoteIdentifier(transaction.name), ";">>
    ELSE <<"START TRANSACTION", ";">>

\* lines 799-805
commitTransactionQuery(transaction) ==
  IF transaction.parent # "" THEN NothingReturned ELSE <<"COMMIT", ";">>

\* rollbackTransactionQuery taking every transaction for a root
rollbackTransactionQueryRoot(transaction) == <<"ROLLBACK", ";">>

\* lines 814-821
rollbackTransactionQuery(transaction) ==
  IF transaction.parent # ""
    THEN <<"ROLLBACK TO SAVEPOINT ", quoteIdentifier(transaction.name), ";">>
    ELSE <<"ROLLBACK", ";">>

(***************************************************************************)
(* incrementQuery (part_000), updateQuery (queries/addIndex.js, second     *)
(* module of the file)                                                     *)
(***************************************************************************)
\* lines 235-269; options is an ordered list of <<key, value>>
incrementQuery(tableName, attrValueHash, where, options) ==
  LET hash == removeNullValuesFromHash(attrValueHash, dialect.omitNull)
      values ==
        [i \in 1..Len(hash) |->
           <<quoteIdentifier(hash[i][1]) \o "=" \o quoteIdentifier(hash[i][1]) \o " + ">>
           \o escape(hash[i][2])]
        \o [i \in 1..Len(options) |->
              <<quoteIdentifier(options[i][1]) \o "=">> \o escape(options[i][2])]
      outputFragment == IF dialect.returnValues = "output"
                          THEN <<" OUTPUT INSERTED.*">> ELSE << >>
  IN <<"UPDATE ", quoteTable(Str(tableName), ""), " SET ">> \o Join(values, ",")
     \o outputFragment \o <<" ">> \o whereQuery(where, NoOptions)
     \o (IF dialect.returnValues = "returning" THEN <<" RETURNING *">> ELSE << >>)

\* _.defaults(options, this.options): the omitNull the call works with
UpdateOmitNull(options) ==
  IF IsUndefined(options.omitNull) THEN dialect.omitNull ELSE Truthy(options.omitNull)

\* lines 155-247; options is [limit, returning, hasTrigger, omitNull],
\* attributes a list of model attributes or << >> when the caller passes none
updateQuery(tableName, attrValueHash, where, options, attributes) ==
  LET hash == removeNullValuesFromHash(attrValueHash, UpdateOmitNull(options))
      trigger == /\ dialect.returnValues = "output"
                 /\ Len(attributes) > 0
                 /\ options.hasTrigger
                 /\ dialect.tmpTableTrigger
      tmpTable == IF trigger
                    THEN <<"declare @tmp table (">> \o TmpColumns(attributes) \o <<")", ";">>
                    ELSE << >>
      outputFragment ==
        IF dialect.returnValues = "output"
          THEN IF trigger
                 THEN <<" OUTPUT ">> \o OutputColumns(attributes) \o <<" into @tmp">>
                 ELSE <<" OUTPUT INSERTED.*">>
          ELSE << >>
      kept == SelectSeq(hash, LAMBDA p : ~(IsAutoIncrement(attributes, p[1])
                                          /\ ~dialect.autoIncUpdate))
      values == [i \in 1..Len(kept) |->
                   <<quoteIdentifier(kept[i][1]) \o "=">> \o escape(kept[i][2])]
      query == tmpTable \o <<"UPDATE ", quoteTable(Str(tableName), ""), " SET ">>
               \o Join(values, ",") \o outputFragment \o <<" ">>
               \o whereQuery(where, NoOptions)
               \o (IF dialect.limitOnUpdate /\ Truthy(options.limit)
                     THEN <<" LIMIT ">> \o escape(options.limit) \o <<" ">> ELSE << >>)
               \o (IF trigger THEN <<";", "select * from @tmp">> ELSE << >>)
               \o (IF dialect.returnValues = "returning" /\ options.returning
                     THEN <<" RETURNING *">> ELSE << >>)
  IN IF Thrown(query) THEN query
     ELSE IF Len(values) = 0 THEN << >>
     ELSE TrimEnd(query)

\* the caller's options after updateQuery: the generator's options filled in
\* (line 157), mapToModel set with RETURNING (line 208), both before the where
\* argument is compiled
UpdateOptionsAfter(options) ==
  [options EXCEPT
     !.omitNull = Bool(UpdateOmitNull(options)),
     !.mapToModel = options.mapToModel
                    \/ (dialect.returnValues = "returning" /\ options.returning)]

(***************************************************************************)
(* bulkInsertQuery (queries/bulkInsert.js)                                 *)
(***************************************************************************)
\* lines 18-28: the keys of all rows in first-seen order
RECURSIVE AllAttributes(_, _)
AllAttributes(pairs, acc) ==
  IF Len(pairs) = 0 THEN acc
  ELSE AllAttributes(Tail(pairs),
                     IF \E i \in 1..Len(acc) : acc[i] = Head(pairs)[1]
                       THEN acc ELSE Append(acc, Head(pairs)[1]))

\* a value put into the text as it is: String(value)
RawString(x) ==
  CASE x.t = "num" -> ToString(x.v)
    [] x.t = "str" -> x.v
    [] x.t = "bool" -> IF x.v THEN "true" ELSE "false"
    [] OTHER -> "[object Object]"

\* rawAttributes[attr].field || attr
FieldOf(rawAttributes, attr) ==
  IF \E i \in 1..Len(rawAttributes) : rawAttributes[i].name = attr
    THEN LET a == rawAttributes[CHOOSE i \in 1..Len(rawAttributes) :
                                  rawAttributes[i].name = attr]
         IN IF a.field # "" THEN a.field ELSE attr
    ELSE attr

\* lines 9-57; options is [updateOnDuplicate (a list of attributes, << >> when
\* absent), ignoreDuplicates, returning]
bulkInsertQuery(tableName, attrValueHashes, options, rawAttributes) ==
  LET allPairs == IF Len(attrValueHashes) = 0 THEN << >>
                  ELSE Join(attrValueHashes, <<"", Null>>)
      allAttributes == AllAttributes(SelectSeq(allPairs, LAMBDA q : q[1] # ""), << >>)
      serial(key) == \E i \in 1..Len(rawAttributes) :
                       rawAttributes[i].name = key /\ rawAttributes[i].autoIncrement
      entry(row, key) ==
        IF dialect.bulkDefault /\ serial(key)
          THEN IF Truthy(Prop(Obj(row), key))
                 THEN <<RawString(Prop(Obj(row), key))>> ELSE <<"DEFAULT">>
          ELSE escape(Prop(Obj(row), key))
      tuples == [r \in 1..Len(attrValueHashes) |->
                   <<"(">>
                   \o Join([k \in 1..Len(allAttributes) |->
                              entry(attrValueHashes[r], allAttributes[k])], ",")
                   \o <<")">>]
      onDuplicateKeyUpdate ==
        IF dialect.updateOnDuplicate /\ Len(options.updateOnDuplicate) > 0
          THEN <<" ON DUPLICATE KEY UPDATE ">>
               \o Join([i \in 1..Len(options.updateOnDuplicate) |->
                          LET key == quoteIdentifier(
                                       FieldOf(rawAttributes, options.updateOnDuplicate[i]))
                          IN <<key \o "=VALUES(" \o key \o ")">>], ",")
          ELSE << >>
  IN <<"INSERT">>
     \o (IF options.ignoreDuplicates /\ dialect.ignoreDuplicates # ""
           THEN <<dialect.ignoreDuplicates>> ELSE << >>)
     \o <<" INTO ", quoteTable(Str(tableName), ""), " (">>
     \o Join([k \in 1..Len(allAttributes) |-> <<quoteIdentifier(allAttributes[k])>>], ",")
     \o <<")", " VALUES ">> \o Join(tuples, ",") \o onDuplicateKeyUpdate
     \o (IF dialect.returnValues # "none" /\ options.returning
           THEN <<" RETURNING *">> ELSE << >>)
     \o <<";">>

(***************************************************************************)
(* addIndexQuery (queries/addIndex.js) and nameIndexes (part_000)          *)
(* A field is a column name (Str) or [t |-> "field", name, attribute,      *)
(* collate, order, length], "" and 0 standing for an absent property.      *)
(* options is [fields, name, indexName, unique, type, using, prefix,       *)
(* where, concurrently, operator, parser], "" an absent text.              *)
(***************************************************************************)
\* Utils.underscore of the attribute and table names in use
Underscore(s) ==
  CASE s = "userId" -> "user_id"
    [] s = "createdAt" -> "created_at"
    [] s = "Users" -> "users"
    [] OTHER -> s

\* prefix.replace(/\./g, '_').replace(/(\"|\')/g, '')
CleanPrefix(s) ==
  CASE s = "s.users" -> "s_users"
    [] s = "'users'" -> "users"
    [] OTHER -> s

\* lines 60-62: field.name = field.attribute
NamedField(field) ==
  IF field.t = "field" /\ field.attribute # ""
    THEN [field EXCEPT !.name = field.attribute] ELSE field

\* nameIndexes naming the index after its fields alone
nameIndexesNoPrefix(index, rawTablename) ==
  IF index.name # "" THEN index
  ELSE [index EXCEPT !.name = "idx"]

\* lines 271-280, for the one index addIndexQuery names
nameIndexes(index, rawTablename) ==
  IF index.name # "" THEN index
  ELSE LET onlyAttributeNames ==
             [i \in 1..Len(index.fields) |->
                IF index.fields[i].t = "str" THEN index.fields[i].v
                ELSE IF index.fields[i].t = "lit" THEN ""
                ELSE IF index.fields[i].name # "" THEN index.fields[i].name
                ELSE index.fields[i].attribute]
           joined == Join([i \in 1..Len(onlyAttributeNames) |->
                             <<Underscore(onlyAttributeNames[i])>>], "_")
           RECURSIVE Concat(_)
           Concat(parts) == IF Len(parts) = 0 THEN "" ELSE Head(parts) \o Concat(Tail(parts))
       IN [index EXCEPT !.name = Underscore(rawTablename) \o "_" \o Concat(joined)]

\* Model.$conformIndex: a type 'unique' becomes the unique flag
conformIndex(index) ==
  IF index.type \in {"UNIQUE", "unique"}
    THEN [index EXCEPT !.unique = TRUE, !.type = ""] ELSE index

\* lines 52-85: the SQL of one index field
FieldSql(field) ==
  IF field.t = "str" THEN <<quoteIdentifier(field.v)>>
  ELSE IF field.t = "lit" THEN handleSequelizeMethod(field)
  ELSE LET f == NamedField(field)
       IN IF f.name = "" THEN <<ErrIndexField>>
          ELSE <<quoteIdentifier(f.name)>>
               \o (IF dialect.index.collate /\ f.collate # ""
                     THEN <<" COLLATE " \o quoteIdentifier(f.collate)>> ELSE << >>)
               \o (IF dialect.index.length /\ f.length # 0
                     THEN <<"(" \o ToString(f.length) \o ")">> ELSE << >>)
               \o (IF f.order # "" THEN <<" " \o f.order>> ELSE << >>)

\* the first field the map of lines 52-85 raises on, Len(fields) + 1 if none
FirstUnnamed(fields) ==
  LET bad == {i \in 1..Len(fields) :
                fields[i].t = "field" /\ fields[i].name = "" /\ fields[i].attribute = ""}
  IN IF bad = {} THEN Len(fields) + 1
     ELSE CHOOSE i \in bad : \A j \in bad : i <= j

\* lines 25-85: the options object once the fields are taken over, the legacy
\* name applied, the prefix cleaned and the fields visited
IndexOptionsRead(tableName, attributes, options0, rawTablename) ==
  LET o1 == IF IsArray(attributes) THEN [options0 EXCEPT !.fields = attributes.v]
            ELSE options0
      o2 == IF o1.indexName # "" THEN [o1 EXCEPT !.name = o1.indexName] ELSE o1
      prefix == IF o2.prefix # "" THEN o2.prefix
                ELSE IF rawTablename # "" THEN rawTablename ELSE tableName
  IN [o2 EXCEPT !.prefix = CleanPrefix(prefix),
                !.fields = [i \in 1..Len(o2.fields) |->
                              IF i < FirstUnnamed(o2.fields)
                                THEN NamedField(o2.fields[i]) ELSE o2.fields[i]]]

\* lines 86-96: the index named and conformed
IndexOptions(tableName, attributes, options0, rawTablename) ==
  LET o3 == IndexOptionsRead(tableName, attributes, options0, rawTablename)
      o4 == IF o3.name = "" THEN nameIndexes(o3, o3.prefix) ELSE o3
      o5 == conformIndex(o4)
  IN IF ~dialect.index.type THEN [o5 EXCEPT !.type = ""] ELSE o5

\* lines 25-135
addIndexQuery(tableName, attributes, options0, rawTablename) ==
  LET fields == IF IsArray(attributes) THEN attributes.v ELSE options0.fields
      fieldsSql == [i \in 1..Len(fields) |-> FieldSql(fields[i])]
      options == IndexOptions(tableName, attributes, options0, rawTablename)
      where == IF Truthy(options.where) THEN whereQuery(options.where, NoOptions)
               ELSE << >>
      table == quoteIdentifiers(tableName)
      concurrently == IF dialect.index.concurrently /\ options.concurrently
                        THEN <<"CONCURRENTLY">> ELSE << >>
      ind ==
        (IF dialect.indexViaAlter
           THEN << <<"ALTER TABLE">>, <<table>>, concurrently, <<"ADD">> >>
           ELSE << <<"CREATE">> >>)
        \o << IF options.unique THEN <<"UNIQUE">> ELSE << >>,
              IF options.type # "" THEN <<options.type>> ELSE << >>,
              <<"INDEX">>,
              IF ~dialect.indexViaAlter THEN concurrently ELSE << >>,
              <<quoteIdentifiers(options.name)>>,
              IF dialect.index.using = 1 /\ options.using # ""
                THEN <<"USING " \o options.using>> ELSE << >>,
              IF ~dialect.indexViaAlter THEN <<"ON " \o table>> ELSE << >>,
              IF dialect.index.using = 2 /\ options.using # ""
                THEN <<"USING " \o options.using>> ELSE << >>,
              <<"(">> \o Join(fieldsSql, ", ")
                \o (IF options.operator # "" THEN <<" " \o options.operator>> ELSE << >>)
                \o <<")">>,
              IF dialect.index.parser /\ options.parser # ""
                THEN <<"WITH PARSER " \o options.parser>> ELSE << >>,
              IF dialect.index.where THEN where ELSE << >> >>
  IN IF \E i \in 1..Len(fieldsSql) : Thrown(fieldsSql[i])
       THEN <<ErrIndexField>>
     ELSE IF Thrown(where) THEN where
     ELSE Join(NonEmpty(ind), " ")

\* the options object of the caller after addIndexQuery, which rewrites the
\* object it is given: up to the field that raises, up to the where that
\* raises, or to the end, where options.where holds its SQL text
IndexOptionsAfter(tableName, attributes, options0, rawTablename) ==
  LET read == IndexOptionsRead(tableName, attributes, options0, rawTablename)
      options == IndexOptions(tableName, attributes, options0, rawTablename)
  IN IF FirstUnnamed(read.fields) <= Len(read.fields) THEN read
     ELSE IF Truthy(options.where) /\ ~Thrown(whereQuery(options.where, NoOptions))
       THEN [options EXCEPT !.where = Lit(whereQuery(options.where, NoOptions))]
       ELSE options

(***************************************************************************)
(* Models and associations                                                 *)
(* A model is [name, tableName, primaryKeyAttributes, rawAttributes] with  *)
(* rawAttributes an ordered list of <<attribute, field>>.  An association  *)
(* is [type, source, target, as, identifier, identifierField,              *)
(* foreignIdentifierField, through], source, target and through being      *)
(* model names ("" when there is none).                                    *)
(***************************************************************************)
Models ==
  [ User |-> [name |-> "User", tableName |-> "users",
              primaryKeyAttributes |-> <<"id">>,
              rawAttributes |-> << <<"id", "id">>, <<"name", "name">>,
                                   <<"groupId", "group_id">> >>],
    Item |-> [name |-> "Item", tableName |-> "items",
              primaryKeyAttributes |-> <<"i">>,
              rawAttributes |-> << <<"i", "item_no">>, <<"id", "id">>,
                                   <<"name", "name">> >>],
    Task |-> [name |-> "Task", tableName |-> "tasks",
              primaryKeyAttributes |-> <<"id">>,
              rawAttributes |-> << <<"id", "id">>, <<"title", "title">>,
                                   <<"userId", "user_id">> >>],
    Group |-> [name |-> "Group", tableName |-> "groups",
               primaryKeyAttributes |-> <<"id">>,
               rawAttributes |-> << <<"id", "group_no">>, <<"label", "label">> >>],
    UserGroup |-> [name |-> "UserGroup", tableName |-> "user_groups",
                   primaryKeyAttributes |-> <<"userId", "groupId">>,
                   rawAttributes |-> << <<"userId", "user_id">>,
                                        <<"groupId", "group_id">> >>] ]

\* model.rawAttributes[attr].field
RawField(model, attr) ==
  LET m == Models[model]
  IN m.rawAttributes[CHOOSE i \in 1..Len(m.rawAttributes) : m.rawAttributes[i][1] = attr][2]

\* model.primaryKeyAttribute and model.primaryKeyField
primaryKeyAttribute(model) == Models[model].primaryKeyAttributes[1]
primaryKeyField(model) == RawField(model, primaryKeyAttribute(model))

Associations ==
  [ Tasks |-> [type |-> "HasMany", source |-> "User", target |-> "Task", as |-> "Tasks",
               identifier |-> "userId", identifierField |-> "user_id",
               foreignIdentifierField |-> "", through |-> "", toTarget |-> ""],
    Owner |-> [type |-> "BelongsTo", source |-> "Task", target |-> "User", as |-> "Owner",
               identifier |-> "userId", identifierField |-> "user_id",
               foreignIdentifierField |-> "", through |-> "", toTarget |-> ""],
    MainGroup |-> [type |-> "BelongsTo", source |-> "User", target |-> "Group",
                   as |-> "MainGroup", identifier |-> "groupId",
                   identifierField |-> "group_id",
                   foreignIdentifierField |-> "", through |-> "", toTarget |-> ""],
    Groups |-> [type |-> "BelongsToMany", source |-> "User", target |-> "Group",
                as |-> "Groups", identifier |-> "userId", identifierField |-> "user_id",
                foreignIdentifierField |-> "group_id", through |-> "UserGroup",
                toTarget |-> "Group"],
    Labels |-> [type |-> "BelongsToMany", source |-> "Task", target |-> "Group",
                as |-> "Labels", identifier |-> "taskId", identifierField |-> "task_id",
                foreignIdentifierField |-> "group_id", through |-> "UserGroup",
                toTarget |-> "Group"],
    \* toTarget of Groups and Labels: the through model's own association to
    \* the target
    Group |-> [type |-> "BelongsTo", source |-> "UserGroup", target |-> "Group",
               as |-> "Group", identifier |-> "groupId", identifierField |-> "group_id",
               foreignIdentifierField |-> "", through |-> "", toTarget |-> ""] ]

\* parent.getAssociation(model, as): the alias of the association of parent to
\* model ("" when there is none)
getAssociation(parent, model, as) ==
  LET First(found) == IF found = {} THEN "" ELSE Associations[CHOOSE a \in found : TRUE].as
  IN First({a \in DOMAIN Associations :
              /\ Associations[a].source = parent
              /\ Associations[a].target = model
              /\ (as = "" \/ Associations[a].as = as)})

(***************************************************************************)
(* Fragment builders (part_000): addLimitAndOffset, selectFromTableFragment,*)
(* quote, getQueryOrders                                                   *)
(***************************************************************************)
\* lines 830-845; x != null
NotNullish(x) == ~IsNull(x) /\ ~IsUndefined(x)

addLimitAndOffset(options) ==
  IF NotNullish(options.offset) /\ ~NotNullish(options.limit)
    THEN <<" LIMIT ">> \o escape(options.offset) \o <<", ", "10000000000000">>
  ELSE IF NotNullish(options.limit)
    THEN IF NotNullish(options.offset)
           THEN <<" LIMIT ">> \o escape(options.offset) \o <<", ">> \o escape(options.limit)
           ELSE <<" LIMIT ">> \o escape(options.limit)
  ELSE << >>

\* lines 637-645; attributes is a list of texts, tables a text, mainTableAs ""
\* when absent
selectFromTableFragment(attributes, tables, mainTableAs) ==
  <<"SELECT ">> \o Join(attributes, ", ") \o <<" FROM ">> \o tables
  \o (IF mainTableAs # "" THEN <<" AS ", mainTableAs>> ELSE << >>)

\* order.toUpperCase() of the directions in use
ToUpperCase(s) ==
  CASE s = "asc" -> "ASC"
    [] s = "desc" -> "DESC"
    [] OTHER -> s

\* lines 595-610
validateOrder(order) ==
  IF IsSequelizeMethod(order) THEN << >>
  ELSE IF ToUpperCase(order.v) \in {"ASC", "DESC", "ASC NULLS LAST", "DESC NULLS LAST",
                                    "ASC NULLS FIRST", "DESC NULLS FIRST",
                                    "NULLS FIRST", "NULLS LAST"}
    THEN << >>
  ELSE <<ErrOrder>>

\* an element of an order item that names a model: a model or {model, as}
IsModelRef(x) == x.t = "model"

\* lines 398-426: the walk over the leading models of a sequence; the result is
\* [i, tableNames, parent, err], i counted from 1
RECURSIVE QuoteWalk(_, _)
QuoteWalk(obj, st) ==
  IF st.i > Len(obj) - 1 \/ ~IsModelRef(obj[st.i]) THEN st
  ELSE LET item == obj[st.i]
           Step(as) ==
             IF as = ""
               THEN [st EXCEPT !.err = TRUE]
               ELSE QuoteWalk(obj,
                      [i |-> st.i + 1, tableNames |-> Append(st.tableNames, <<as>>),
                       parent |-> item.model,
                       through |-> IF as \in DOMAIN Associations
                                     THEN Associations[as].through ELSE "",
                       err |-> FALSE])
       IN Step(IF st.through = item.model /\ item.as = ""
                 THEN item.model
                 ELSE getAssociation(st.parent, item.model, item.as))

\* lines 385-451; parent is a model name ("" when absent)
RECURSIVE quote(_, _)
quote(obj, parent) ==
  IF IsString(obj) THEN <<quoteIdentifiers(obj.v)>>
  ELSE IF IsArray(obj)
    THEN LET RECURSIVE Concat(_)
             Concat(parts) == IF Len(parts) = 0 THEN ""
                              ELSE Head(parts) \o Concat(Tail(parts))
             Walked(walk) ==
               IF walk.err THEN <<ErrAssociation>>
               ELSE (IF walk.i > 1 \/ (IsString(obj.v[1]) /\ parent # "")
                       THEN <<quoteIdentifier(
                                IF walk.i > 1 THEN Concat(Join(walk.tableNames, "."))
                                ELSE parent) \o ".">>
                       ELSE << >>)
                    \o quote(obj.v[walk.i], walk.parent)
                    \o (IF walk.i < Len(obj.v)
                          THEN IF IsSequelizeMethod(obj.v[walk.i + 1])
                                 THEN handleSequelizeMethod(obj.v[walk.i + 1])
                                 ELSE <<" " \o RawString(obj.v[walk.i + 1])>>
                          ELSE << >>)
         IN Walked(QuoteWalk(obj.v, [i |-> 1, tableNames |-> << >>, parent |-> parent,
                                     through |-> "", err |-> FALSE]))
  ELSE IF IsSequelizeMethod(obj) THEN handleSequelizeMethod(obj)
  ELSE <<ErrOrderStructure>>

\* lines 591-635: [mainQueryOrder, subQueryOrder], two lists of texts
getQueryOrders(options, model, subQuery) ==
  IF IsArray(options.order)
    THEN LET t(k) == options.order.v[k]
             checked(k) ==
               IF IsArray(t(k)) /\ Len(t(k).v) > 1
                 THEN IF IsModelRef(t(k).v[1])
                        THEN IF IsString(t(k).v[Len(t(k).v) - 1])
                               THEN validateOrder(t(k).v[Len(t(k).v)]) ELSE << >>
                        ELSE validateOrder(t(k).v[Len(t(k).v)])
                 ELSE << >>
             all == 1..Len(options.order.v)
             inner == {k \in all : subQuery /\ IsArray(t(k)) /\ ~IsModelRef(t(k).v[1])}
             Pick(items, S) ==
               SelectSeq([k \in all |-> IF k \in S THEN items[k] ELSE <<"">>],
                         LAMBDA x : x # <<"">>)
             Orders(items) ==
               [mainQueryOrder |-> Pick(items, all), subQueryOrder |-> Pick(items, inner)]
         IN Orders([k \in all |-> checked(k) \o quote(t(k), model)])
    ELSE [mainQueryOrder |->
            <<quote(IF IsString(options.order) THEN Lit(<<options.order.v>>)
                    ELSE options.order, model)>>,
          subQueryOrder |-> << >>]

(***************************************************************************)
(* Includes.  An include is the record Model.$validateIncludedElements     *)
(* leaves in options.include: [model, as, association, required, where,    *)
(* on, or, subQuery, subQueryFilter, through, attributes, include,         *)
(* separate, pseudo] with model a model name and association a key of      *)
(* Associations.  Its parent chain is held as parents (the including       *)
(* includes, nearest first) and root (model and subQuery of the options    *)
(* the tree belongs to).                                                   *)
(***************************************************************************)
NoThrough == [model |-> "", as |-> "", attributes |-> << >>, where |-> Undef]

IncludeDefaults ==
  [ model |-> "", as |-> "", association |-> "", required |-> FALSE, where |-> Undef,
    on |-> Undef, or |-> FALSE, subQuery |-> FALSE, subQueryFilter |-> FALSE,
    through |-> NoThrough, attributes |-> << >>, include |-> << >>,
    separate |-> FALSE, pseudo |-> FALSE, parents |-> << >>,
    root |-> [model |-> "", subQuery |-> FALSE] ]

\* include.parent: the nearest including include, or the options themselves
IncludeParent(include) ==
  IF Len(include.parents) > 0
    THEN LET p == include.parents[1]
         IN [association |-> p.association, model |-> p.model, as |-> p.as,
             subQuery |-> p.subQuery]
    ELSE [association |-> "", model |-> include.root.model, as |-> "",
          subQuery |-> include.root.subQuery]

\* include.parent = ... as the validation sets it on every include of a tree
RECURSIVE SetParents(_, _, _)
SetParents(include, parents, root) ==
  LET self == [include EXCEPT !.parents = parents, !.root = root, !.include = << >>]
  IN [include EXCEPT
        !.parents = parents,
        !.root = root,
        !.include = [i \in 1..Len(include.include) |->
                       SetParents(include.include[i], <<self>> \o parents, root)]]

\* lines 675-681: the aliases of the including includes, outermost first
RECURSIVE AncestorAs(_)
AncestorAs(parents) ==
  IF Len(parents) = 0 THEN ""
  ELSE IF Len(parents) = 1 THEN parents[1].as
  ELSE AncestorAs(Tail(parents)) \o "." \o parents[1].as

\* lines 647-727; options is [model, subQuery, include, groupedLimit], subQuery
\* and groupedLimit by their truth value
joinIncludeQuery(options) ==
  LET include == options.include
      association == Associations[include.association]
      parent == IncludeParent(include)
      parentIsTop == parent.association = "" /\ parent.model = options.model
      joinType == IF include.required THEN "INNER JOIN " ELSE "LEFT OUTER JOIN "
      left == association.source
      belongsTo == association.type = "BelongsTo"
      attrLeft == IF belongsTo THEN association.identifier ELSE primaryKeyAttribute(left)
      fieldLeft == IF belongsTo THEN association.identifierField
                   ELSE RawField(left, primaryKeyAttribute(left))
      right == include.model
      tableRight == Models[right].tableName
      fieldRight == IF belongsTo THEN RawField(right, primaryKeyAttribute(right))
                    ELSE association.identifierField
      chain == AncestorAs(include.parents)
      parentName == IF parent.as # "" THEN parent.as ELSE parent.model
      asLeft == IF chain = "" THEN parentName ELSE chain
      asRight == IF chain = "" THEN include.as ELSE chain \o "." \o include.as
      leftSide ==
        IF (options.groupedLimit /\ parentIsTop)
           \/ (options.subQuery /\ parent.subQuery /\ ~include.subQuery)
          THEN IF parentIsTop
                 THEN quoteTable(Str(parentName), "") \o "." \o quoteIdentifier(attrLeft)
                 ELSE quoteIdentifier(asLeft \o "." \o attrLeft)
          ELSE quoteTable(Str(asLeft), "") \o "." \o quoteIdentifier(fieldLeft)
      prefix == [prefix |-> Lit(<<quoteIdentifier(asRight)>>)]
      joinOn == IF Truthy(include.on)
                  THEN whereItemsQuery(include.on, prefix, "")
                  ELSE <<leftSide \o " = " \o quoteIdentifier(asRight) \o "."
                         \o quoteIdentifier(fieldRight)>>
      Bound(joinWhere) ==
        IF Len(joinWhere) > 0
          THEN <<IF include.or THEN " OR " ELSE " AND ">> \o joinWhere
          ELSE << >>
  IN <<joinType, quoteTable(Str(tableRight), asRight), " ON ">> \o joinOn
     \o Bound(IF Truthy(include.where)
                THEN whereItemsQuery(include.where, prefix, "") ELSE << >>)

\* lines 1333-1396; tableName is the prefix (a quoted name or a Literal), factory
\* a model name ("" when absent)
RECURSIVE getWhereConditions(_, _, _, _)
getWhereConditions(smth, tableName, factory, prepend) ==
  LET options == [prefix |-> IF prepend THEN tableName ELSE Bool(FALSE)]
      OrTrue(r) == IF Len(r) > 0 THEN r ELSE <<"1=1">>
      \* lines 1366-1375: a number is the primary key's value
      byKey == Obj(<< <<IF factory # "" /\ Len(Models[factory].primaryKeyAttributes) > 0
                          THEN Models[factory].primaryKeyAttributes[1] ELSE "id",
                        smth>> >>)
  IN IF Truthy(smth) /\ IsSequelizeMethod(smth)
       THEN OrTrue(handleSequelizeMethod(smth))
     ELSE IF IsPlainObject(smth) \/ smth.t = "num" \/ IsString(smth) \/ IsNull(smth)
       THEN whereItemsQuery(IF smth.t = "num" THEN byKey ELSE smth, options, "")
     ELSE IF IsArray(smth)
       THEN IF Len(smth.v) = 0 THEN <<"1=1">>
            ELSE IF canTreatArrayAsAnd(smth)
              THEN OrTrue(getWhereConditions(Obj(<< <<"$and", smth>> >>),
                                             tableName, factory, prepend))
            ELSE OrTrue(UtilsFormat(smth))
     ELSE <<"1=1">>

\* a Where(attribute, comparator, logic) node; its attribute is an expression
\* or the attribute of a model, [t |-> "attr", model, field]
WhereNode(attribute, comparator, logic) ==
  [t |-> "where", attribute |-> attribute, comparator |-> comparator, logic |-> logic]

\* lines 850-876: handleSequelizeMethod(smth) for a Where node
handleWhere(smth) ==
  LET value == smth.logic
      key == IF IsSequelizeMethod(smth.attribute)
               THEN getWhereConditions(smth.attribute, Undef, "", TRUE)
               ELSE <<quoteTable(Str(smth.attribute.model), "") \o "."
                      \o quoteIdentifier(smth.attribute.field)>>
  IN IF Truthy(value) /\ IsSequelizeMethod(value)
       THEN LET lowered == getWhereConditions(value, Undef, "", TRUE)
            IN IF lowered = <<"NULL">> THEN key \o <<" IS NULL">>
               ELSE key \o <<smth.comparator>> \o lowered
     ELSE IF IsPlainObject(value)
       THEN whereItemQuery(smth.attribute, value, [prefix |-> Undef])
     ELSE LET escaped == escape(value)
          IN IF escaped = <<"NULL">> THEN key \o <<" IS NULL">>
             ELSE key \o <<" " \o smth.comparator \o " ">> \o escaped

(***************************************************************************)
(* selectQuery (select.js)                                                 *)
(* options is a record of the options selectQuery reads; an absent option  *)
(* is undefined, "" or FALSE as in SelectDefaults.                         *)
(***************************************************************************)
SelectDefaults ==
  [ attributes |-> Undef, where |-> Undef, order |-> Undef, group |-> Undef,
    having |-> Undef, limit |-> Undef, offset |-> Undef, subQuery |-> Undef,
    hasMultiAssociation |-> FALSE, include |-> Undef, includeIgnoreAttributes |-> TRUE,
    groupedLimit |-> Undef, lock |-> Undef, tableAs |-> "", model |-> "" ]

\* the characters of the attribute names in use
Chars ==
  [ s \in {"id", "name", "i", "uid", "user_id", "title", "n", "COUNT(id)", "t.c"} |->
      CASE s = "id" -> <<"i", "d">>
        [] s = "name" -> <<"n", "a">>
        [] s = "i" -> <<"i">>
        [] s = "uid" -> <<"u", "i">>
        [] s = "user_id" -> <<"u", "s">>
        [] s = "title" -> <<"t", "i">>
        [] s = "n" -> <<"n">>
        [] s = "COUNT(id)" -> <<"C", "O">>
        [] OTHER -> <<"t", ".">> ]

\* attr[k] of a string: its character at k, "" when there is none
CharAt(attr, k) == IF k + 1 <= Len(Chars[attr]) THEN Chars[attr][k + 1] ELSE ""

\* attr.indexOf('.') !== -1 and attr.indexOf('(') !== -1 || attr.indexOf(')') !== -1
HasDot(attr) == SplitFolded(attr) # <<attr>>
HasParen(attr) == attr = "COUNT(id)"

\* line 59: keyAtt === attr || keyAtt === attr[0] || keyAtt === attr[1]
KeyFound(keyAtt, attr) ==
  IF IsString(attr)
    THEN keyAtt = attr.v \/ keyAtt = CharAt(attr.v, 0) \/ keyAtt = CharAt(attr.v, 1)
  ELSE IF IsArray(attr)
    THEN \E k \in 1..2 : k <= Len(attr.v) /\ IsString(attr.v[k]) /\ keyAtt = attr.v[k].v
  ELSE FALSE

\* lines 56-63
RECURSIVE InjectPrimaryKeys(_, _, _)
InjectPrimaryKeys(mainAttributes, keys, model) ==
  IF Len(keys) = 0 THEN mainAttributes
  ELSE LET keyAtt == Head(keys)
           found == \E i \in 1..Len(mainAttributes) : KeyFound(keyAtt, mainAttributes[i])
           field == RawField(model, keyAtt)
       IN InjectPrimaryKeys(
            IF found THEN mainAttributes
            ELSE Append(mainAttributes,
                        IF field # "" THEN Arr(<<Str(keyAtt), Str(field)>>) ELSE Str(keyAtt)),
            Tail(keys), model)

\* lines 66-91: one attribute of the main model, escaped
MainAttribute(attr, hasInclude, mainTableAs) ==
  IF IsSequelizeMethod(attr) THEN handleSequelizeMethod(attr)
  ELSE IF IsArray(attr) /\ Len(attr.v) = 2
    THEN IF IsSequelizeMethod(attr.v[1])
           THEN handleSequelizeMethod(attr.v[1]) \o <<" AS " \o quoteIdentifier(attr.v[2].v)>>
           ELSE LET first == IF ~HasParen(attr.v[1].v)
                               THEN quoteIdentifier(attr.v[1].v) ELSE attr.v[1].v
                    text == first \o " AS " \o quoteIdentifier(attr.v[2].v)
                IN IF hasInclude /\ ~HasDot(attr.v[1].v) /\ ~HasDot(attr.v[2].v)
                     THEN <<mainTableAs \o "." \o text>>
                     ELSE <<text>>
    ELSE IF hasInclude /\ ~HasDot(attr.v)
           THEN <<mainTableAs \o "." \o quoteIdentifiers(attr.v)>>
           ELSE <<quoteIdentifiers(attr.v)>>

\* lines 128-162: one attribute of an include
IncludeAttribute(attr, as) ==
  IF IsArray(attr) /\ Len(attr.v) = 2
    THEN (IF IsSequelizeMethod(attr.v[1])
            THEN handleSequelizeMethod(attr.v[1])
            ELSE <<quoteIdentifier(as) \o "." \o quoteIdentifier(attr.v[1].v)>>)
         \o <<" AS " \o quoteIdentifier(as \o "." \o attr.v[2].v)>>
  ELSE IF IsSequelizeMethod(attr) THEN attr.v
  ELSE <<quoteIdentifier(as) \o "." \o quoteIdentifier(attr.v)
         \o " AS " \o quoteIdentifier(as \o "." \o attr.v)>>

\* lines 173-177: one attribute of the through model
ThroughAttribute(attr, throughAs) ==
  <<quoteIdentifier(throughAs) \o "."
    \o quoteIdentifier(IF IsArray(attr) THEN attr.v[1].v ELSE attr.v)
    \o " AS "
    \o quoteIdentifier(throughAs \o "." \o (IF IsArray(attr) THEN attr.v[2].v ELSE attr.v))>>

\* lines 263-274: the include at the top of the parent chain, holding the chain
\* down to the include and nothing else
TopInclude(include) ==
  LET RECURSIVE Nest(_, _)
      Nest(k, nested) ==
        IF k > Len(include.parents) THEN nested
        ELSE Nest(k + 1, [include.parents[k] EXCEPT !.include = <<nested>>])
  IN Nest(1, [include EXCEPT !.include = << >>])

\* Model.$validateIncludedElements({model, include: [{association, required: true}]})
validateIncludedElements(model, association) ==
  LET target == Associations[association].target
      raw == Models[target].rawAttributes
  IN << [IncludeDefaults EXCEPT
           !.model = target,
           !.as = Associations[association].as,
           !.association = association,
           !.required = TRUE,
           !.attributes = [i \in 1..Len(raw) |-> Str(raw[i][1])],
           !.root = [model |-> model, subQuery |-> FALSE]] >>

\* the embedded sub-select with its terminator left in place
KeepTerminator(query) == query

\* $query.replace(/\;$/, '') (lines 314, 344, 431)
StripTerminator(query) ==
  IF Len(query) > 0 /\ query[Len(query)] = ";"
    THEN SubSeq(query, 1, Len(query) - 1)
    ELSE query

\* sequelize.asIs(['(', query, ')', 'IS NOT NULL'].join(' '))
IsNotNull(query) ==
  Lit(Join(<< <<"(">>, StripTerminator(query), <<")">>, <<"IS NOT NULL">> >>, " "))

\* the loop over the includes that joins none of them
JoinIncludesSkipped(includes, joinQueries, ctx) == joinQueries

RECURSIVE selectRun(_, _, _)
RECURSIVE generateJoinQueries(_, _, _, _)
RECURSIVE JoinChildren(_, _, _, _)
RECURSIVE JoinIncludes(_, _, _)

\* lines 104-390: the joins and attributes of one include and of the includes
\* below it.  st is [mainAttributes, subQueryAttributes, where] as the closure
\* finds them, ctx the constants of the selectQuery call; the result is st as
\* the closure leaves it with the joinQueries returned.
generateJoinQueries(include, parentTable, st, ctx) ==
  LET options == ctx.options
      subQuery == ctx.subQuery
      association == Associations[include.association]
      through == include.through
      joinType == IF include.required THEN " INNER JOIN " ELSE " LEFT OUTER JOIN "
      parent == IncludeParent(include)
      parentIsTop == parent.association = "" /\ parent.model = options.model
      table == Models[include.model].tableName
      as == IF ctx.tableName # parentTable /\ ctx.mainTableAs # parentTable
              THEN parentTable \o "." \o include.as
              ELSE include.as
      inner == include.subQuery /\ subQuery
      attributes ==
        IF options.includeIgnoreAttributes
          THEN [i \in 1..Len(include.attributes) |->
                  IncludeAttribute(include.attributes[i], as)]
          ELSE << >>
      st1 == IF inner
               THEN [st EXCEPT !.subQueryAttributes = @ \o attributes]
               ELSE [st EXCEPT !.mainAttributes = @ \o attributes]
      where0 == IF Truthy(st.where) THEN st.where ELSE Obj(<< >>)
      \* lines 170-319
      throughTable == Models[through.model].tableName
      throughAs == as \o "." \o through.as
      throughAttributes ==
        IF options.includeIgnoreAttributes
          THEN [i \in 1..Len(through.attributes) |->
                  ThroughAttribute(through.attributes[i], throughAs)]
          ELSE << >>
      primaryKeysSource == Models[association.source].primaryKeyAttributes
      primaryKeysTarget == Models[association.target].primaryKeyAttributes
      attrTarget == RawField(association.target, primaryKeysTarget[1])
      attrSource ==
        IF ~subQuery
           \/ (~include.subQuery /\ ~parent.subQuery /\ parent.model # ctx.model)
          THEN RawField(association.source, primaryKeysSource[1])
          ELSE primaryKeysSource[1]
      sourceJoinOn ==
        (IF subQuery /\ ~include.subQuery /\ parent.subQuery /\ ~parentIsTop
           THEN quoteIdentifier(parentTable \o "." \o attrSource)
           ELSE quoteTable(Str(parentTable), "") \o "." \o quoteIdentifier(attrSource))
        \o " = " \o quoteIdentifier(throughAs) \o "."
        \o quoteIdentifier(association.identifierField)
      targetJoinOn ==
        quoteIdentifier(as) \o "." \o quoteIdentifier(attrTarget) \o " = "
        \o quoteIdentifier(throughAs) \o "."
        \o quoteIdentifier(association.foreignIdentifierField)
      \* the conditions of the through model and of the target (each model's
      \* where, alias and name), ' AND ' before the ones that are there
      And(cond) ==
        LET Prefixed(text) == IF Len(text) > 0 THEN <<" AND ">> \o text ELSE << >>
        IN Prefixed(IF Truthy(cond.where)
                      THEN getWhereConditions(cond.where, Lit(<<quoteIdentifier(cond.as)>>),
                                              cond.model, TRUE)
                      ELSE << >>)
      ThroughJoin(conds) ==
        (IF dialect.joinTableDependent
           THEN <<joinType \o "(", quoteTable(Str(throughTable), throughAs),
                  " INNER JOIN " \o quoteTable(Str(table), as) \o " ON ", targetJoinOn>>
                \o conds[1] \o <<") ON " \o sourceJoinOn>>
           ELSE <<joinType \o quoteTable(Str(throughTable), throughAs) \o " ON ",
                  sourceJoinOn,
                  joinType \o quoteTable(Str(table), as) \o " ON ", targetJoinOn>>
                \o conds[1])
        \o conds[2]
      throughJoin ==
        ThroughJoin([c \in 1..2 |->
                       And(<< [where |-> through.where, as |-> throughAs,
                               model |-> through.model],
                              [where |-> include.where, as |-> as,
                               model |-> include.model] >>[c])])
      topInclude == TopInclude(include)
      topParent == include.root
      throughQuery ==
        IF topInclude.through.model # ""
          THEN selectRun(
                 Models[topInclude.through.model].tableName,
                 [SelectDefaults EXCEPT
                    !.attributes = Arr(<<Str(primaryKeyField(topInclude.through.model))>>),
                    !.include =
                      Arr(validateIncludedElements(
                            topInclude.through.model,
                            Associations[topInclude.association].toTarget)),
                    !.model = topInclude.through.model,
                    !.where =
                      Obj(<< <<"$and",
                               Arr(<<Lit(<<quoteTable(Str(topParent.model), "") \o "."
                                           \o quoteIdentifier(primaryKeyField(topParent.model))
                                           \o " = "
                                           \o quoteIdentifier(topInclude.through.model) \o "."
                                           \o quoteIdentifier(
                                                Associations[topInclude.association]
                                                  .identifierField)>>),
                                     topInclude.through.where>>)>> >>),
                    !.limit = Num(1),
                    !.includeIgnoreAttributes = FALSE],
                 topInclude.through.model).query
          ELSE selectRun(
                 Models[topInclude.model].tableName,
                 [SelectDefaults EXCEPT
                    !.attributes =
                      Arr(<<Str(Models[topInclude.model].primaryKeyAttributes[1])>>),
                    !.include = Arr(topInclude.include),
                    !.where =
                      Obj(<< <<"$join",
                               Lit(<<quoteTable(Str(topParent.model), "") \o "."
                                     \o quoteIdentifier(
                                          Models[topParent.model].primaryKeyAttributes[1])
                                     \o " = "
                                     \o quoteIdentifier(topInclude.model) \o "."
                                     \o quoteIdentifier(
                                          Associations[topInclude.association]
                                            .identifierField)>>)>> >>),
                    !.limit = Num(1),
                    !.includeIgnoreAttributes = FALSE],
                 topInclude.model).query
      \* line 312: options.where['__' + throughAs] = ... raises when
      \* options.where is a string
      throughSt ==
        [st1 EXCEPT
           !.mainAttributes = @ \o throughAttributes,
           !.err = @ \/ ((Truthy(include.where) \/ Truthy(through.where))
                         /\ subQuery /\ include.required /\ IsString(where0)),
           !.where =
             IF (Truthy(include.where) \/ Truthy(through.where))
                /\ subQuery /\ include.required /\ ~IsString(where0)
               THEN SetProp(where0, "__" \o throughAs, IsNotNull(throughQuery))
               ELSE @]
      \* lines 320-362
      associationWhere ==
        Obj(<< <<association.identifierField,
                 Obj(<< <<"$raw",
                          Str(quoteTable(Str(parentTable), "") \o "."
                              \o quoteIdentifier(primaryKeyField(association.source)))>> >>)>> >>)
      filterQuery ==
        selectRun(
          table,
          [SelectDefaults EXCEPT
             !.attributes = Arr(<<Str(association.identifierField)>>),
             !.where =
               Obj(<< <<"$and",
                        Arr(<<associationWhere,
                              IF Truthy(include.where) THEN include.where
                              ELSE Obj(<< >>)>>)>> >>),
             !.limit = Num(1)],
          include.model).query
      directSt ==
        IF subQuery /\ include.subQueryFilter
          THEN [st1 EXCEPT
                  !.where =
                    IF IsPlainObject(where0)
                      THEN SetProp(where0, "__" \o as, IsNotNull(filterQuery))
                      ELSE Obj(<< <<"$and", Arr(<<where0, IsNotNull(filterQuery)>>)>> >>)]
          ELSE st1
      directJoin ==
        <<" ">> \o joinIncludeQuery([model |-> ctx.model,
                                     subQuery |-> Truthy(options.subQuery),
                                     include |-> include,
                                     groupedLimit |-> Truthy(options.groupedLimit)])
      Own(joinQueryItem) ==
        [st |-> IF through.model # "" THEN throughSt ELSE directSt,
         mainQuery |-> IF inner THEN << >> ELSE <<joinQueryItem>>,
         subQuery |-> IF inner THEN <<joinQueryItem>> ELSE << >>]
  IN JoinChildren(include.include, as,
                  Own(IF through.model # "" THEN throughJoin ELSE directJoin), ctx)

\* lines 370-387
JoinChildren(children, as, joinQueries, ctx) ==
  IF Len(children) = 0 THEN joinQueries
  ELSE LET childInclude == Head(children)
       IN IF childInclude.separate \/ childInclude.pseudo
            THEN JoinChildren(Tail(children), as, joinQueries, ctx)
            ELSE LET childJoinQueries ==
                       generateJoinQueries(childInclude, as, joinQueries.st, ctx)
                 IN JoinChildren(
                      Tail(children), as,
                      [st |-> childJoinQueries.st,
                       mainQuery |-> joinQueries.mainQuery \o childJoinQueries.mainQuery,
                       subQuery |->
                         IF childInclude.subQuery /\ ctx.subQuery
                           THEN joinQueries.subQuery \o childJoinQueries.subQuery
                           ELSE joinQueries.subQuery],
                      ctx)

\* lines 393-403
JoinIncludes(includes, joinQueries, ctx) ==
  IF Len(includes) = 0 THEN joinQueries
  ELSE IF Head(includes).separate
    THEN JoinIncludes(Tail(includes), joinQueries, ctx)
  ELSE LET Merged(found) ==
             [st |-> found.st,
              mainQuery |-> joinQueries.mainQuery \o found.mainQuery,
              subQuery |-> joinQueries.subQuery \o found.subQuery]
       IN JoinIncludes(Tail(includes),
                       Merged(generateJoinQueries(Head(includes), ctx.mainTableAs,
                                                  joinQueries.st, ctx)),
                       ctx)

\* the characters of the condition strings in use
StringChars ==
  [ s \in {"id = 1"} |-> <<"i", "d", " ", "=", " ", "1">> ]

\* line 419: _.assign({}, options.where); a string is copied character by
\* character under its indexes, any other value that is no object gives {}
AssignedWhere(where) ==
  IF IsPlainObject(where) THEN where
  ELSE IF IsString(where)
    THEN Obj([k \in 1..Len(StringChars[where.v]) |->
                <<ToString(k - 1), Str(StringChars[where.v][k])>>])
  ELSE Obj(<< >>)

\* lines 26-532: [query, options, where]: the text returned, the where, group
\* and having options as the call leaves them, and the caller's where object as
\* the call leaves it
selectRun(tableName, options, model) ==
  LET limit == options.limit
      subQuery == IF IsUndefined(options.subQuery)
                    THEN Truthy(limit) /\ options.hasMultiAssociation
                    ELSE Truthy(options.subQuery)
      hasInclude == Truthy(options.include)
      grouped == Truthy(options.groupedLimit)
      groupedLimit == options.groupedLimit
      \* lines 34-101: the quoted table, the alias of the main table, the
      \* attribute lists
      Named(table, mainTableAs0) ==
        LET requested ==
              IF subQuery
                THEN InjectPrimaryKeys(options.attributes.v,
                                       Models[model].primaryKeyAttributes, model)
                ELSE options.attributes.v
            escaped ==
              IF Truthy(options.attributes)
                THEN [i \in 1..Len(requested) |->
                        MainAttribute(requested[i], hasInclude,
                                      IF mainTableAs0 = "" THEN "null" ELSE mainTableAs0)]
              ELSE IF hasInclude
                THEN << <<(IF mainTableAs0 = "" THEN "null" ELSE mainTableAs0) \o ".*">> >>
              ELSE << <<"*">> >>
            st0 == [mainAttributes |->
                      IF subQuery \/ grouped
                        THEN << <<(IF mainTableAs0 # "" THEN mainTableAs0 ELSE table)
                                  \o ".*">> >>
                        ELSE escaped,
                    subQueryAttributes |-> IF subQuery \/ grouped THEN escaped ELSE << >>,
                    where |-> options.where,
                    err |-> FALSE]
            ctx == [tableName |-> tableName, mainTableAs |-> mainTableAs0,
                    options |-> options, model |-> model, subQuery |-> subQuery]
            \* lines 413-416
            mainTableAs == IF ~subQuery /\ grouped /\ mainTableAs0 = "" THEN table
                           ELSE mainTableAs0
            \* lines 405-440: the query over the joins of the includes
            Joined(joined) ==
              LET st == joined.st
                  mainJoinQueries == JoinEmpty(joined.mainQuery)
                  subJoinQueries == JoinEmpty(joined.subQuery)
                  branch(k) ==
                    <<"(">>
                    \o StripTerminator(
                         selectRun(table,
                                   [SelectDefaults EXCEPT
                                      !.attributes = options.attributes,
                                      !.limit = groupedLimit.limit,
                                      !.order = options.order,
                                      !.where =
                                        SetProp(AssignedWhere(st.where),
                                                groupedLimit.on, groupedLimit.values[k])],
                                   model).query)
                    \o <<")">>
                  union ==
                    <<"(">>
                    \o Join([k \in 1..Len(groupedLimit.values) |-> branch(k)],
                            IF dialect.unionAll THEN " UNION ALL " ELSE " UNION ")
                    \o <<")">>
                  fragment ==
                    IF subQuery
                      THEN selectFromTableFragment(st.subQueryAttributes, <<table>>,
                                                   mainTableAs)
                           \o subJoinQueries
                    ELSE IF grouped
                      THEN selectFromTableFragment(st.mainAttributes, union, mainTableAs)
                           \o mainJoinQueries
                    ELSE selectFromTableFragment(st.mainAttributes, <<table>>, mainTableAs)
                         \o mainJoinQueries
                  whereRuns == ~IsUndefined(st.where) /\ ~grouped
                  havingRuns == ~IsUndefined(options.having)
                  \* lines 442-532: the clauses, the lock and the terminator
                  Clauses(whereText, groupText, havingText, orders) ==
                    LET whereItem ==
                          IF Len(whereText) > 0 THEN <<" WHERE ">> \o whereText ELSE << >>
                        groupItem ==
                          IF Truthy(options.group) THEN <<" GROUP BY ">> \o groupText
                          ELSE << >>
                        havingItem ==
                          IF havingRuns THEN <<" HAVING ">> \o havingText ELSE << >>
                        mainOrder ==
                          IF Len(orders.mainQueryOrder) > 0
                            THEN <<" ORDER BY ">> \o Join(orders.mainQueryOrder, ", ")
                            ELSE << >>
                        subOrder ==
                          IF Len(orders.subQueryOrder) > 0
                            THEN <<" ORDER BY ">> \o Join(orders.subQueryOrder, ", ")
                            ELSE << >>
                        limitOrder == IF grouped THEN << >> ELSE addLimitAndOffset(options)
                        assembled ==
                          IF subQuery
                            THEN <<"SELECT ">> \o Join(st.mainAttributes, ", ")
                                 \o <<" FROM (">> \o fragment \o whereItem \o groupItem
                                 \o havingItem \o subOrder \o limitOrder
                                 \o <<") AS ", mainTableAs>> \o mainJoinQueries \o mainOrder
                            ELSE fragment \o whereItem \o groupItem \o havingItem
                                 \o mainOrder \o subOrder \o limitOrder
                        level == IF options.lock.t = "lock" THEN options.lock.level
                                 ELSE options.lock.v
                        lockText ==
                          IF Truthy(options.lock) /\ dialect.lock
                            THEN (IF dialect.lockKey
                                     /\ level \in {"KEY SHARE", "NO KEY UPDATE"}
                                    THEN <<" FOR " \o level>>
                                  ELSE IF level = "SHARE" THEN <<" " \o dialect.forShare>>
                                  ELSE <<" FOR UPDATE">>)
                                 \o (IF dialect.lockOf /\ options.lock.t = "lock"
                                        /\ options.lock.of # ""
                                       THEN <<" OF " \o quoteTable(Str(options.lock.of), "")>>
                                       ELSE << >>)
                            ELSE << >>
                        laterDone == ~st.err /\ ~Thrown(fragment \o whereText)
                        whereDone == whereRuns /\ laterDone
                    IN [ query |-> IF st.err THEN <<ErrStringProperty>>
                                   ELSE assembled \o lockText \o <<";">>,
                         options |->
                           [ where |-> IF whereDone THEN [t |-> "sql", v |-> whereText]
                                       ELSE st.where,
                             group |-> IF laterDone /\ IsArray(options.group)
                                         THEN [t |-> "sql", v |-> groupText]
                                         ELSE options.group,
                             having |-> IF laterDone /\ havingRuns /\ ~Thrown(groupItem)
                                          THEN [t |-> "sql", v |-> havingText]
                                          ELSE options.having ],
                         where |->
                           IF ~IsPlainObject(options.where) THEN options.where
                           ELSE IF whereRuns THEN whereItemsAfter(st.where)
                           ELSE IF ~subQuery /\ Len(groupedLimit.values) > 0
                             THEN Obj([i \in 1..Len(st.where.v) |->
                                         IF st.where.v[i][1] = groupedLimit.on
                                           THEN st.where.v[i]
                                           ELSE <<st.where.v[i][1],
                                                  whereItemAfter(Str(st.where.v[i][1]),
                                                                 st.where.v[i][2])>>])
                           ELSE st.where ]
              IN Clauses(
                   \* lines 442-458
                   IF whereRuns
                     THEN getWhereConditions(
                            st.where,
                            Str(IF mainTableAs # "" THEN mainTableAs ELSE tableName),
                            model, TRUE)
                     ELSE << >>,
                   \* lines 460-468
                   IF IsArray(options.group)
                     THEN Join([i \in 1..Len(options.group.v) |->
                                  quote(options.group.v[i], model)], ", ")
                   ELSE IF options.group.t = "sql" THEN options.group.v
                   ELSE <<RawString(options.group)>>,
                   \* lines 470-478
                   getWhereConditions(options.having, Str(tableName), model, FALSE),
                   \* lines 480-490
                   IF Truthy(options.order) /\ ~grouped
                     THEN getQueryOrders(options, model, subQuery)
                     ELSE [mainQueryOrder |-> << >>, subQueryOrder |-> << >>])
        IN Joined(IF hasInclude
                    THEN JoinIncludes(options.include.v,
                                      [st |-> st0, mainQuery |-> << >>, subQuery |-> << >>],
                                      ctx)
                    ELSE [st |-> st0, mainQuery |-> << >>, subQuery |-> << >>])
  IN Named(quoteTable(Str(tableName), ""),
           IF options.tableAs # "" THEN quoteTable(Str(options.tableAs), "")
           ELSE IF model # "" THEN quoteTable(Str(tableName), "")
           ELSE "")

selectQuery(tableName, options, model) == selectRun(tableName, options, model).query

(***************************************************************************)
(* Requests to selectQuery                                                 *)
(***************************************************************************)
MaxGroupValues == 2   \* values of a groupedLimit

IncTasks ==
  [IncludeDefaults EXCEPT
     !.model = "Task", !.as = "Tasks", !.association = "Tasks",
     !.attributes = <<Str("id"), Str("title")>>]

\* a required one-to-many include: filtered by a correlated subquery
IncTasksRequired ==
  [IncTasks EXCEPT
     !.required = TRUE, !.where = Obj(<< <<"title", Str("x")>> >>),
     !.subQueryFilter = TRUE]

\* a required many-to-one include: joined inside the subquery
IncMainGroup ==
  [IncludeDefaults EXCEPT
     !.model = "Group", !.as = "MainGroup", !.association = "MainGroup",
     !.required = TRUE, !.subQuery = TRUE,
     !.attributes = <<Arr(<<Str("group_no"), Str("id")>>), Str("label")>>]

\* an optional many-to-one include: joined outside the subquery
IncMainGroupOptional ==
  [IncludeDefaults EXCEPT
     !.model = "Group", !.as = "MainGroup", !.association = "MainGroup",
     !.attributes = <<Str("label")>>]

IncGroups ==
  [IncludeDefaults EXCEPT
     !.model = "Group", !.as = "Groups", !.association = "Groups",
     !.attributes = <<Str("label")>>,
     !.through = [model |-> "UserGroup", as |-> "UserGroup",
                  attributes |-> <<Arr(<<Str("user_id"), Str("userId")>>)>>,
                  where |-> Undef]]

IncGroupsRequired ==
  [IncGroups EXCEPT !.required = TRUE, !.where = Obj(<< <<"label", Str("x")>> >>)]

\* a required many-to-many include without a where of its own or of its
\* through model
IncGroupsUnfiltered == [IncGroups EXCEPT !.required = TRUE]

IncGroupsThroughWhere ==
  [IncGroups EXCEPT
     !.required = TRUE,
     !.through = [@ EXCEPT !.where = Obj(<< <<"groupId", Num(1)>> >>)]]

IncLabels ==
  [IncludeDefaults EXCEPT
     !.model = "Group", !.as = "Labels", !.association = "Labels",
     !.required = TRUE, !.where = Obj(<< <<"label", Str("x")>> >>),
     !.attributes = <<Str("label")>>,
     !.through = [model |-> "UserGroup", as |-> "UserGroup",
                  attributes |-> << >>, where |-> Undef]]

IncOwner ==
  [IncludeDefaults EXCEPT
     !.model = "User", !.as = "Owner", !.association = "Owner",
     !.attributes = <<Str("name")>>]

IncludeLists ==
  { << >>, <<IncTasks>>, <<IncTasksRequired>>, <<IncMainGroup>>, <<IncGroups>>,
    <<IncGroupsRequired>>, <<IncGroupsThroughWhere>>, <<IncGroupsUnfiltered>>,
    <<[IncTasks EXCEPT !.required = TRUE, !.include = <<IncLabels>>]>>,
    <<[IncTasks EXCEPT !.include = <<IncOwner>>]>>,
    <<IncTasks, IncGroupsRequired>>,
    <<IncTasks, IncMainGroupOptional>>,
    <<[IncTasks EXCEPT !.separate = TRUE], IncMainGroup>> }

\* the subQuery and subQueryFilter marks are only left on the includes of a
\* request that has a limit
RECURSIVE Unmarked(_)
Unmarked(include) ==
  [include EXCEPT
     !.subQuery = FALSE, !.subQueryFilter = FALSE,
     !.include = [i \in 1..Len(include.include) |-> Unmarked(include.include[i])]]

\* options.include of a request for the model with these options
ValidatedIncludes(includes, options, model) ==
  Arr([i \in 1..Len(includes) |->
         SetParents(IF Truthy(options.limit) THEN includes[i] ELSE Unmarked(includes[i]),
                    << >>,
                    [model |-> model, subQuery |-> Truthy(options.subQuery)])])

SelectAttributes ==
  { Undef,
    Arr(<<Str("name")>>),
    Arr(<<Str("id"), Str("name")>>),
    Arr(<<Arr(<<Str("id"), Str("uid")>>)>>),
    Arr(<<Arr(<<Str("COUNT(id)"), Str("n")>>), Str("title")>>),
    Arr(<<Lit(<<"COUNT(*) AS n">>)>>) }

SelectWheres ==
  { Undef, Obj(<< >>), Obj(<< <<"id", Num(1)>> >>),
    Obj(<< <<"name", Obj(<< <<"ne", Str("x")>> >>)>>, <<"groupId", Null>> >>) }

GroupedLimits ==
  {Undef} \cup
  { [t |-> "groupedLimit", on |-> "groupId",
     values |-> [k \in 1..n |-> Num(k)], limit |-> Num(3)] : n \in 0..MaxGroupValues }

SelectOrders ==
  { Undef, Str("name ASC"),
    Arr(<<Arr(<<Str("name"), Str("DESC")>>), Str("id")>>),
    Arr(<<Arr(<<[t |-> "model", model |-> "Task", as |-> ""], Str("title"),
                Str("asc")>>)>>),
    Arr(<<Arr(<<Str("name"), Str("DROP")>>)>>) }

SelectLocks ==
  { Undef, Str("UPDATE"), Str("SHARE"),
    [t |-> "lock", level |-> "KEY SHARE", of |-> "Task"] }

\* requests that vary what decides the shape of the statement
SelectShapes ==
  { [SelectDefaults EXCEPT
       !.attributes = a, !.where = w, !.subQuery = s, !.limit = l[1],
       !.hasMultiAssociation = l[2], !.groupedLimit = g] :
    a \in SelectAttributes, w \in SelectWheres,
    s \in {Undef, Bool(TRUE), Bool(FALSE)},
    l \in {<<Undef, FALSE>>, <<Num(10), FALSE>>, <<Num(10), TRUE>>},
    g \in GroupedLimits }

\* requests that vary the trailing clauses
SelectClauses ==
  { [SelectDefaults EXCEPT
       !.attributes = a, !.where = w, !.limit = l[1], !.offset = l[2],
       !.hasMultiAssociation = m, !.order = o, !.group = g[1], !.having = g[2],
       !.lock = k] :
    a \in {Undef, Arr(<<Str("name")>>)},
    w \in {Undef, Obj(<< <<"id", Num(1)>> >>)},
    l \in {<<Undef, Undef>>, <<Num(10), Undef>>, <<Num(10), Num(5)>>, <<Undef, Num(5)>>},
    m \in BOOLEAN,
    o \in SelectOrders,
    g \in { <<Undef, Undef>>, <<Arr(<<Str("name")>>), Undef>>, <<Str("name"), Undef>>,
            <<Arr(<<Str("name")>>), Obj(<< <<"n", Obj(<< <<"$gt", Num(1)>> >>)>> >>)>> },
    k \in SelectLocks }

\* requests whose condition is a raw string
RawWhereShapes ==
  { [SelectDefaults EXCEPT
       !.where = Str("id = 1"), !.subQuery = s, !.limit = l[1],
       !.hasMultiAssociation = l[2], !.groupedLimit = g] :
    s \in {Undef, Bool(TRUE), Bool(FALSE)},
    l \in {<<Undef, FALSE>>, <<Num(10), TRUE>>},
    g \in GroupedLimits }

SelectDialects ==
  { BaseDialect,
    [BaseDialect EXCEPT !.unionAll = FALSE, !.joinTableDependent = FALSE,
                        !.lock = TRUE, !.lockKey = TRUE, !.lockOf = TRUE,
                        !.forShare = "LOCK IN SHARE MODE"] }

\* subQuery as selectQuery derives it (line 32)
SubQueryActive(options) ==
  IF IsUndefined(options.subQuery)
    THEN Truthy(options.limit) /\ options.hasMultiAssociation
    ELSE Truthy(options.subQuery)

InitSelect ==
  /\ pc = "call"
  /\ op = "selectQuery"
  /\ result = NoResult
  /\ dialect \in SelectDialects
  /\ \/ \E o \in SelectShapes :
          \/ \E includes \in IncludeLists :
               args = [tableName |-> "users", model |-> "User",
                       options |-> [o EXCEPT !.model = "User",
                                             !.include =
                                               ValidatedIncludes(includes, o, "User")]]
          \/ \E m \in {"User", "Item"} :
               args = [tableName |-> Models[m].tableName, model |-> m,
                       options |-> [o EXCEPT !.model = m]]
          \/ /\ ~SubQueryActive(o)
             /\ args = [tableName |-> "users", model |-> "", options |-> o]
     \/ \E o \in SelectClauses :
          \/ \E includes \in {<<IncTasks>>, <<[IncTasks EXCEPT !.include = <<IncOwner>>]>>} :
               args = [tableName |-> "users", model |-> "User",
                       options |-> [o EXCEPT !.model = "User",
                                             !.include =
                                               ValidatedIncludes(includes, o, "User")]]
          \/ args = [tableName |-> "users", model |-> "User",
                     options |-> [o EXCEPT !.model = "User"]]
     \/ \E o \in RawWhereShapes :
          \/ \E includes \in {<<IncTasks>>, <<IncTasksRequired>>} :
               args = [tableName |-> "users", model |-> "User",
                       options |-> [o EXCEPT !.model = "User",
                                             !.include =
                                               ValidatedIncludes(includes, o, "User")]]
          \/ args = [tableName |-> "users", model |-> "User",
                     options |-> [o EXCEPT !.model = "User"]]
  /\ heap = [options |-> [where |-> args.options.where, group |-> args.options.group,
                          having |-> args.options.having],
             where |-> args.options.where]

SelectQuery ==
  /\ pc = "call"
  /\ op = "selectQuery"
  /\ LET Ran(run) == /\ result' = Returned(run.query)
                     /\ heap' = [options |-> run.options, where |-> run.where]
     IN Ran(selectRun(args.tableName, args.options, args.model))
  /\ pc' = "done"
  /\ UNCHANGED <<op, args, dialect>>

\* the options object as a first call leaves it for the next one: where and
\* having hold the SQL string lines 444 and 472 stored in them, group the joined
\* text of line 462, and a where mapping that was not replaced holds what the
\* compiler left in it
OptionsAfter(options, left, where) ==
  LET AsString(text) == IF text = << >> THEN Str("") ELSE Str("compiled")
  IN [options EXCEPT
        !.where = IF left.where.t = "sql" THEN AsString(left.where.v)
                  ELSE IF IsPlainObject(options.where) THEN where
                  ELSE left.where,
        !.group = left.group,
        !.having = IF left.having.t = "sql" THEN AsString(left.having.v)
                   ELSE left.having]

\* selectQuery called once more with the same tableName, options object and
\* model
SelectQueryAgain ==
  /\ pc = "done"
  /\ op = "selectQuery"
  /\ LET Ran(run) == heap' = [options |-> run.options, where |-> run.where,
                              again |-> Returned(run.query)]
     IN Ran(selectRun(args.tableName, OptionsAfter(args.options, heap.options, heap.where),
                      args.model))
  /\ pc' = "again"
  /\ UNCHANGED <<op, args, dialect, result>>

NextSelect == SelectQuery \/ SelectQueryAgain

SpecSelect == InitSelect /\ [][NextSelect]_vars

\* a text ends with the statement terminator
Terminated(text) == Len(text) > 0 /\ text[Len(text)] = ";"

\* the places of a text that hold the token
Places(text, token) == {i \in 1..Len(text) : text[i] = token}

\* C4: the text selectQuery returns ends with ';' and holds no other
\* terminating ';': the terminator of every sub-select generated on the way
\* (the branches of a grouped limit, the correlated 'IS NOT NULL' subqueries of
\* required includes) is removed before the sub-select is embedded.
SelectOneTerminator ==
  (pc = "done" /\ op = "selectQuery" /\ result.kind = "text") =>
    Places(result.sql, ";") = {Len(result.sql)}

\* C4 witness: selectQuery returned a statement that embeds a correlated
\* 'IS NOT NULL' subquery, itself generated by selectQuery
SelectEmbedsSubSelectWitness ==
  /\ pc = "done"
  /\ op = "selectQuery"
  /\ result.kind = "text"
  /\ Places(result.sql, "IS NOT NULL") # {}
  /\ Terminated(result.sql)

\* C13: a raw string given as the condition never reaches the SQL: whereQuery,
\* whereItemsQuery and, through getWhereConditions, selectQuery with a string
\* as options.where raise the raw-query error and return no fragment.
RawStringRaises ==
  (/\ pc = "done"
   /\ \/ op \in {"whereQuery", "whereItemsQuery"} /\ IsString(args.where)
      \/ op = "selectQuery" /\ IsString(args.options.where)) =>
    result = [kind |-> "error", sql |-> << >>, err |-> ErrRawWhere]

\* C15: selectQuery called twice in a row with the same tableName, the same
\* options object and the same model returns the same text both times: the
\* second call neither fails nor differs because of the first.
SelectQueryRepeatable ==
  (pc = "again" /\ op = "selectQuery" /\ result.kind = "text") => heap.again = result

\* the parenthesised sub-SELECTs of a text: the places of a '(' directly
\* followed by 'SELECT '
SubSelects(text) == {i \in Places(text, "(") : i < Len(text) /\ text[i + 1] = "SELECT "}

\* C7: with groupedLimit = {on, values: vs, limit}, whatever subQuery is, the
\* FROM source is exactly |vs| parenthesised sub-SELECTs joined by ' UNION ALL '
\* where the dialect has it and by ' UNION ' otherwise.
GroupedLimitUnion ==
  (pc = "done" /\ op = "selectQuery" /\ result.kind = "text"
   /\ Truthy(args.options.groupedLimit)) =>
    LET vs == args.options.groupedLimit.values
        union == IF dialect.unionAll THEN " UNION ALL " ELSE " UNION "
    IN /\ Cardinality(SubSelects(result.sql)) = Len(vs)
       /\ Len(vs) > 0 => Cardinality(Places(result.sql, union)) = Len(vs) - 1

\* the SELECT list of the inner subquery: the tokens between 'SELECT ' after
\* ' FROM (' and the next ' FROM '
InnerSelectList(text) ==
  LET open == CHOOSE i \in Places(text, " FROM (") :
                \A j \in Places(text, " FROM (") : i <= j
      close == CHOOSE i \in Places(text, " FROM ") :
                 i > open /\ \A j \in Places(text, " FROM ") : j > open => i <= j
  IN SubSeq(text, open + 2, close - 1)

\* the attributes that name the key: the key itself and the 2-tuples with the
\* key as expression or as alias
KeyAttributes(model, keyAtt) ==
  {Str(keyAtt)}
  \cup UNION {{Arr(<<Str(keyAtt), Str(x)>>), Arr(<<Str(x), Str(keyAtt)>>)} :
                x \in DOMAIN Chars \cup {RawField(model, keyAtt)}}

\* C9: with subQuery active and an explicit attribute list, every primary-key
\* attribute of the model is in the SELECT list of the inner subquery, as
\* itself or as [attr, field]; a plain string attribute that only starts with
\* the key's name does not stand for it.
PrimaryKeysSelected ==
  (pc = "done" /\ op = "selectQuery" /\ result.kind = "text"
   /\ SubQueryActive(args.options) /\ IsArray(args.options.attributes)) =>
    LET list == InnerSelectList(result.sql)
        mainTableAs == quoteTable(Str(args.tableName), "")
    IN \A k \in 1..Len(Models[args.model].primaryKeyAttributes) :
         \E i \in 1..Len(list) :
           \E a \in KeyAttributes(args.model, Models[args.model].primaryKeyAttributes[k]) :
             <<list[i]>> = MainAttribute(a, Truthy(args.options.include), mainTableAs)

(***************************************************************************)
(* Requests to the other statement builders and to the fragment builders   *)
(***************************************************************************)
MaxRows == 2   \* rows of one bulk insert

NoHeap == [options |-> Undef, where |-> Undef]

StatementWheres ==
  { Obj(<< >>), Obj(<< <<"id", Num(1)>> >>), Str("id = 1"),
    Obj(<< <<"name", Obj(<< <<"ne", Str("x")>> >>)>> >>) }

Transactions == {[name |-> "t1", parent |-> ""], [name |-> "sp1", parent |-> "t1"]}

UpdateDialects ==
  { [BaseDialect EXCEPT
       !.returnValues = r[1], !.tmpTableTrigger = r[2],
       !.limitOnUpdate = b, !.autoIncUpdate = ~b, !.omitNull = n] :
    r \in {<<"none", FALSE>>, <<"returning", FALSE>>, <<"output", FALSE>>, <<"output", TRUE>>},
    b \in BOOLEAN, n \in BOOLEAN }

UpdateOptions ==
  { [limit |-> l, returning |-> r[1], hasTrigger |-> r[2], omitNull |-> n,
     mapToModel |-> FALSE] :
    l \in {Undef, Num(1)},
    r \in {<<FALSE, FALSE>>, <<TRUE, FALSE>>, <<TRUE, TRUE>>},
    n \in {Undef, Bool(TRUE)} }

BulkRows ==
  { << <<"id", Null>>, <<"name", Str("x")>> >>,
    << <<"name", Str("y")>> >>,
    << <<"id", Num(5)>> >>,
    << <<"name", Null>>, <<"seq", Num(0)>> >>,
    << <<"id", Str("x")>>, <<"name", Str("y")>> >> }

BulkDialects ==
  { [BaseDialect EXCEPT
       !.bulkDefault = b, !.updateOnDuplicate = u,
       !.ignoreDuplicates = IF u THEN " IGNORE" ELSE "",
       !.returnValues = r] :
    b \in BOOLEAN, u \in BOOLEAN, r \in {"none", "returning"} }

IndexFields ==
  { <<Str("name")>>,
    <<Str("name"),
      [t |-> "field", name |-> "", attribute |-> "userId", collate |-> "",
       order |-> "DESC", length |-> 0]>>,
    <<[t |-> "field", name |-> "title", attribute |-> "", collate |-> "en_US",
       order |-> "", length |-> 5]>>,
    <<[t |-> "field", name |-> "", attribute |-> "", collate |-> "",
       order |-> "", length |-> 0]>>,
    <<Lit(<<"lower(name)">>)>> }

IndexDialects ==
  { [BaseDialect EXCEPT
       !.indexViaAlter = a,
       !.index = [collate |-> f, length |-> f, parser |-> f, type |-> f,
                  using |-> u, where |-> f, concurrently |-> f]] :
    a \in BOOLEAN, f \in BOOLEAN, u \in 0..2 }

IndexRequestOptions ==
  { [fields |-> << >>, name |-> n[1], indexName |-> n[2], unique |-> q, type |-> t,
     using |-> u[1], prefix |-> "", where |-> w, concurrently |-> u[2],
     operator |-> u[3], parser |-> u[4]] :
    n \in {<<"", "">>, <<"idx", "">>, <<"", "legacy_idx">>},
    q \in BOOLEAN,
    t \in {"", "UNIQUE", "FULLTEXT"},
    u \in {<<"", FALSE, "", "">>, <<"BTREE", TRUE, "text_pattern_ops", "ngram">>},
    w \in {Undef, Obj(<< <<"id", Num(1)>> >>), Str("id = 1")} }

\* order options whose items carry more than a column and a direction
DirectionOrders ==
  { Arr(<<Arr(<<Str("name"), Str("DROP"), Str("ASC")>>)>>),
    Arr(<<Arr(<<Str("name"), Str("desc"), Str("ASC")>>)>>),
    Arr(<<Arr(<<[t |-> "model", model |-> "Task", as |-> ""], Lit(<<"title">>),
                Str("DROP")>>)>>),
    Arr(<<Arr(<<[t |-> "model", model |-> "Task", as |-> "Tasks"], Str("title"),
                Str("DROP")>>)>>),
    Arr(<<Arr(<<Lit(<<"LOWER(name)">>), Str("DROP")>>)>>),
    Arr(<<Arr(<<Lit(<<"LOWER(name)">>), Str("DESC")>>), Str("id")>>) }

\* the includes joinIncludeQuery is called with: those without a through model
JoinedIncludes ==
  { <<IncTasks>>, <<IncTasksRequired>>, <<IncMainGroup>>,
    <<[IncTasks EXCEPT !.on = Obj(<< <<"userId", Num(1)>> >>), !.or = TRUE,
                       !.where = Obj(<< <<"title", Str("x")>> >>)]>>,
    <<[IncTasks EXCEPT !.include = <<IncOwner>>]>> }

\* Where nodes: the attribute an expression or a model's attribute, the logic
\* an expression, a scalar or (under an expression) an operator mapping
WhereNodes ==
  { WhereNode(a, c, l) :
      a \in {Lit(<<"LOWER(name)">>), [t |-> "attr", model |-> "User", field |-> "name"]},
      c \in {"=", "LIKE", ">"},
      l \in {Lit(<<"NULL">>), Lit(<<"UPPER('x')">>), Num(1), Str("x"), Null, Bool(TRUE)} }
    \cup { WhereNode(Lit(<<"LOWER(name)">>), "=", Obj(<< <<"$gt", Num(1)>> >>)) }

InitStatement ==
  /\ pc = "call"
  /\ result = NoResult
  /\ heap = NoHeap
  /\ \/ /\ op \in {"dropTableQuery"}
        /\ dialect = BaseDialect
        /\ \E t \in TableNames : args = [tableName |-> t]
     \/ /\ op = "renameTableQuery"
        /\ dialect = BaseDialect
        /\ \E b, a \in {"users", "tasks"} : args = [before |-> b, after |-> a]
     \/ /\ op = "describeTableQuery"
        /\ \E b \in BOOLEAN : dialect = [BaseDialect EXCEPT !.schemas = b]
        /\ \E t \in {"users", "tasks"}, s \in {"", "s"}, d \in {"", "_"} :
             args = [tableName |-> t, schema |-> s, schemaDelimiter |-> d]
     \/ /\ op = "setAutocommitQuery"
        /\ dialect = BaseDialect
        /\ \E v \in {Undef, Null, Bool(TRUE), Bool(FALSE)}, p \in {"", "t0"} :
             args = [value |-> v, options |-> [parent |-> p]]
     \/ /\ op = "setIsolationLevelQuery"
        /\ dialect = BaseDialect
        /\ \E v \in {"READ COMMITTED", "SERIALIZABLE"}, p \in {"", "t0"} :
             args = [value |-> v, options |-> [parent |-> p]]
     \/ /\ op \in {"startTransactionQuery", "commitTransactionQuery",
                   "rollbackTransactionQuery"}
        /\ dialect = BaseDialect
        /\ \E t \in Transactions : args = [transaction |-> t]
     \/ /\ op = "incrementQuery"
        /\ \E r \in {"none", "returning", "output"}, n \in BOOLEAN :
             dialect = [BaseDialect EXCEPT !.returnValues = r, !.omitNull = n]
        /\ \E h \in ValueHashes, w \in StatementWheres,
              o \in {<< >>, << <<"updatedAt", Str("now")>> >>} :
             /\ Len(h) <= 1
             /\ args = [tableName |-> "users", attrValueHash |-> h, where |-> w,
                        options |-> o]
     \/ /\ op = "updateQuery"
        /\ dialect \in UpdateDialects
        /\ \E h \in ValueHashes, w \in StatementWheres, o \in UpdateOptions,
              a \in {<< >>, InsertModel} :
             args = [tableName |-> "users", attrValueHash |-> h, where |-> w,
                     options |-> o, attributes |-> a]
     \/ /\ op = "bulkInsertQuery"
        /\ dialect \in BulkDialects
        /\ \E n \in 1..MaxRows :
             \E rows \in [1..n -> BulkRows], u \in {<< >>, <<"name">>}, i \in BOOLEAN,
                r \in BOOLEAN, a \in {<< >>, InsertModel} :
               args = [tableName |-> "users", attrValueHashes |-> rows,
                       options |-> [updateOnDuplicate |-> u, ignoreDuplicates |-> i,
                                    returning |-> r],
                       rawAttributes |-> a]
     \/ /\ op = "addIndexQuery"
        /\ dialect \in IndexDialects
        /\ \E t \in {"users", "s.users"}, f \in IndexFields, o \in IndexRequestOptions,
              r \in {"", "Users"}, positional \in BOOLEAN :
             args = [tableName |-> t,
                     attributes |-> IF positional THEN Arr(f) ELSE Undef,
                     options |-> IF positional THEN o ELSE [o EXCEPT !.fields = f],
                     rawTablename |-> r]
     \/ /\ op = "addLimitAndOffset"
        /\ dialect = BaseDialect
        /\ \E l, o \in {Undef, Null, Num(0), Num(10)} :
             args = [options |-> [limit |-> l, offset |-> o]]
     \/ /\ op = "selectFromTableFragment"
        /\ dialect = BaseDialect
        /\ \E a \in {<< <<"*">> >>, << <<"[id]">>, <<"[name]">> >>},
              t \in TableNames, m \in BOOLEAN :
             args = [attributes |-> a, tables |-> <<quoteIdentifier(t)>>,
                     mainTableAs |-> IF m THEN quoteIdentifier(t) ELSE ""]
     \/ /\ op = "joinIncludeQuery"
        /\ dialect = BaseDialect
        /\ \E includes \in JoinedIncludes, s \in BOOLEAN, g \in BOOLEAN, child \in BOOLEAN :
             LET top == SetParents(includes[1], << >>, [model |-> "User", subQuery |-> s])
             IN /\ child => Len(top.include) > 0
                /\ args = [options |->
                             [model |-> "User", subQuery |-> s, groupedLimit |-> g,
                              include |-> IF child THEN top.include[1] ELSE top]]
     \/ /\ op = "getQueryOrders"
        /\ dialect = BaseDialect
        /\ \E o \in (SelectOrders \ {Undef}) \cup DirectionOrders, s \in BOOLEAN :
             args = [options |-> [order |-> o], model |-> "User", subQuery |-> s]
     \/ /\ op = "handleSequelizeMethod"
        /\ dialect = BaseDialect
        /\ \E smth \in WhereNodes : args = [smth |-> smth]

DropTableQuery ==
  /\ pc = "call"
  /\ op = "dropTableQuery"
  /\ result' = Returned(dropTableQuery(args.tableName))
  /\ pc' = "done"
  /\ UNCHANGED <<op, args, dialect, heap>>

RenameTableQuery ==
  /\ pc = "call"
  /\ op = "renameTableQuery"
  /\ result' = Returned(renameTableQuery(args.before, args.after))
  /\ pc' = "done"
  /\ UNCHANGED <<op, args, dialect, heap>>

DescribeTableQuery ==
  /\ pc = "call"
  /\ op = "describeTableQuery"
  /\ result' = Returned(describeTableQuery(args.tableName, args.schema,
                                           args.schemaDelimiter))
  /\ pc' = "done"
  /\ UNCHANGED <<op, args, dialect, heap>>

SetAutocommitQuery ==
  /\ pc = "call"
  /\ op = "setAutocommitQuery"
  /\ result' = Returned(setAutocommitQuery(args.value, args.options))
  /\ pc' = "done"
  /\ UNCHANGED <<op, args, dialect, heap>>

SetIsolationLevelQuery ==
  /\ pc = "call"
  /\ op = "setIsolationLevelQuery"
  /\ result' = Returned(setIsolationLevelQuery(args.value, args.options))
  /\ pc' = "done"
  /\ UNCHANGED <<op, args, dialect, heap>>

StartTransactionQuery ==
  /\ pc = "call"
  /\ op = "startTransactionQuery"
  /\ result' = Returned(startTransactionQuery(args.transaction))
  /\ pc' = "done"
  /\ UNCHANGED <<op, args, dialect, heap>>

CommitTransactionQuery ==
  /\ pc = "call"
  /\ op = "commitTransactionQuery"
  /\ result' = Returned(commitTransactionQuery(args.transaction))
  /\ pc' = "done"
  /\ UNCHANGED <<op, args, dialect, heap>>

RollbackTransactionQuery ==
  /\ pc = "call"
  /\ op = "rollbackTransactionQuery"
  /\ result' = Returned(rollbackTransactionQuery(args.transaction))
  /\ pc' = "done"
  /\ UNCHANGED <<op, args, dialect, heap>>

IncrementQuery ==
  /\ pc = "call"
  /\ op = "incrementQuery"
  /\ result' = Returned(incrementQuery(args.tableName, args.attrValueHash, args.where,
                                       args.options))
  /\ heap' = [heap EXCEPT !.where = whereItemsAfter(args.where)]
  /\ pc' = "done"
  /\ UNCHANGED <<op, args, dialect>>

UpdateQuery ==
  /\ pc = "call"
  /\ op = "updateQuery"
  /\ result' = Returned(updateQuery(args.tableName, args.attrValueHash, args.where,
                                    args.options, args.attributes))
  /\ heap' = [options |-> UpdateOptionsAfter(args.options),
              where |-> whereItemsAfter(args.where)]
  /\ pc' = "done"
  /\ UNCHANGED <<op, args, dialect>>

BulkInsertQuery ==
  /\ pc = "call"
  /\ op = "bulkInsertQuery"
  /\ result' = Returned(bulkInsertQuery(args.tableName, args.attrValueHashes,
                                        args.options, args.rawAttributes))
  /\ pc' = "done"
  /\ UNCHANGED <<op, args, dialect, heap>>

AddIndexQuery ==
  /\ pc = "call"
  /\ op = "addIndexQuery"
  /\ result' = Returned(addIndexQuery(args.tableName, args.attributes, args.options,
                                      args.rawTablename))
  /\ heap' = [heap EXCEPT
                !.options = IndexOptionsAfter(args.tableName, args.attributes,
                                              args.options, args.rawTablename)]
  /\ pc' = "done"
  /\ UNCHANGED <<op, args, dialect>>

AddLimitAndOffset ==
  /\ pc = "call"
  /\ op = "addLimitAndOffset"
  /\ result' = Returned(addLimitAndOffset(args.options))
  /\ pc' = "done"
  /\ UNCHANGED <<op, args, dialect, heap>>

SelectFromTableFragment ==
  /\ pc = "call"
  /\ op = "selectFromTableFragment"
  /\ result' = Returned(selectFromTableFragment(args.attributes, args.tables,
                                                args.mainTableAs))
  /\ pc' = "done"
  /\ UNCHANGED <<op, args, dialect, heap>>

JoinIncludeQuery ==
  /\ pc = "call"
  /\ op = "joinIncludeQuery"
  /\ result' = Returned(joinIncludeQuery(args.options))
  /\ pc' = "done"
  /\ UNCHANGED <<op, args, dialect, heap>>

HandleSequelizeMethod ==
  /\ pc = "call"
  /\ op = "handleSequelizeMethod"
  /\ result' = Returned(handleWhere(args.smth))
  /\ pc' = "done"
  /\ UNCHANGED <<op, args, dialect, heap>>

\* the two lists getQueryOrders returns, or what it raises
GetQueryOrders ==
  /\ pc = "call"
  /\ op = "getQueryOrders"
  /\ LET orders == getQueryOrders(args.options, args.model, args.subQuery)
         all == JoinEmpty(orders.mainQueryOrder) \o JoinEmpty(orders.subQueryOrder)
     IN result' = IF Thrown(all) THEN Returned(all)
                  ELSE [kind |-> "orders", sql |-> << >>, err |-> "",
                        mainQueryOrder |-> orders.mainQueryOrder,
                        subQueryOrder |-> orders.subQueryOrder]
  /\ pc' = "done"
  /\ UNCHANGED <<op, args, dialect, heap>>

NextStatement ==
  \/ DropTableQuery
  \/ RenameTableQuery
  \/ DescribeTableQuery
  \/ SetAutocommitQuery
  \/ SetIsolationLevelQuery
  \/ StartTransactionQuery
  \/ CommitTransactionQuery
  \/ RollbackTransactionQuery
  \/ IncrementQuery
  \/ UpdateQuery
  \/ BulkInsertQuery
  \/ AddIndexQuery
  \/ AddLimitAndOffset
  \/ SelectFromTableFragment
  \/ JoinIncludeQuery
  \/ GetQueryOrders
  \/ HandleSequelizeMethod

\* every builder of the generator but selectQuery
InitStatements == InitStatement \/ InitInsert \/ InitWhere

NextStatements == NextStatement \/ NextInsert \/ NextWhere

SpecStatements == InitStatements /\ [][NextStatements]_vars

StatementBuilders ==
  {"insertQuery", "bulkInsertQuery", "updateQuery", "incrementQuery", "addIndexQuery",
   "dropTableQuery", "renameTableQuery", "describeTableQuery", "setAutocommitQuery",
   "setIsolationLevelQuery", "startTransactionQuery", "commitTransactionQuery",
   "rollbackTransactionQuery"}

FragmentBuilders ==
  {"whereQuery", "selectFromTableFragment", "joinIncludeQuery", "addLimitAndOffset",
   "getQueryOrders"}

\* the statement builders that return their text as built, without a terminator
OpenBuilders == {"updateQuery", "incrementQuery", "addIndexQuery"}

\* the texts a builder returned: its text, or the items of getQueryOrders
ReturnedTexts ==
  IF result.kind = "text" THEN {result.sql}
  ELSE IF result.kind = "orders"
    THEN {result.mainQueryOrder[i] : i \in 1..Len(result.mainQueryOrder)}
         \cup {result.subQueryOrder[i] : i \in 1..Len(result.subQueryOrder)}
  ELSE {}

UpdateAssignments(attrValueHash, options, attributes) ==
  SelectSeq(removeNullValuesFromHash(attrValueHash, UpdateOmitNull(options)),
            LAMBDA p : ~(IsAutoIncrement(attributes, p[1]) /\ ~dialect.autoIncUpdate))

\* C11: updateQuery returns the empty text whenever no assignment remains in
\* the SET list, for every where argument and every options value, and without
\* raising.
UpdateWithoutAssignmentsIsEmpty ==
  (/\ pc = "done"
   /\ op = "updateQuery"
   /\ UpdateAssignments(args.attrValueHash, args.options, args.attributes) = << >>) =>
    result = Returned(<< >>)

\* the keys of all rows, row after row
RECURSIVE KeyStream(_)
KeyStream(rows) ==
  IF Len(rows) = 0 THEN << >>
  ELSE [i \in 1..Len(rows[1]) |-> rows[1][i][1]] \o KeyStream(Tail(rows))

\* the keys of the rows, each at the place of its first occurrence
FirstSeenKeys(rows) ==
  LET stream == KeyStream(rows)
      first == {i \in 1..Len(stream) : \A j \in 1..(i - 1) : stream[j] # stream[i]}
      Nth(k) == CHOOSE i \in first : Cardinality({j \in first : j < i}) = k - 1
  IN [k \in 1..Cardinality(first) |-> stream[Nth(k)]]

\* the entry the row has to get for a column: DEFAULT for a serial column the
\* row does not supply where the dialect has bulk defaults, otherwise the
\* escaped value, the NULL literal when the row lacks it
ExpectedBulkEntry(row, key, rawAttributes) ==
  IF /\ dialect.bulkDefault
     /\ IsAutoIncrement(rawAttributes, key)
     /\ ~HasKey(Obj(row), key)
    THEN <<"DEFAULT">>
    ELSE escape(Prop(Obj(row), key))

\* C12: bulkInsertQuery's column list is the union of the keys of all rows in
\* first-seen order, and every row gets a tuple with one entry per column: the
\* keyword DEFAULT only for a serial column the row does not supply on a
\* dialect with bulkDefault, otherwise the escaped value of the row for that
\* column; no supplied value is in the text unescaped.
BulkTuplesEscaped ==
  (pc = "done" /\ op = "bulkInsertQuery") =>
    LET s == result.sql
        rows == args.attrValueHashes
        cols == FirstSeenKeys(rows)
        n == Len(cols)
        open == CHOOSE i \in Places(s, " (") : TRUE
        vals == CHOOSE i \in Places(s, " VALUES ") : TRUE
        TupleAt(r) == vals + 1 + (r - 1) * (2 * n + 2)
    IN /\ result.kind = "text"
       /\ Cardinality(Places(s, " (")) = 1
       /\ Cardinality(Places(s, " VALUES ")) = 1
       /\ vals = open + 2 * n + 1
       /\ \A k \in 1..n : s[open + 2 * k - 1] = quoteIdentifier(cols[k])
       /\ Len(s) >= TupleAt(Len(rows)) + 2 * n
       /\ \A r \in 1..Len(rows) :
            /\ s[TupleAt(r)] = "("
            /\ s[TupleAt(r) + 2 * n] = ")"
            /\ \A k \in 1..n :
                 <<s[TupleAt(r) + 2 * k - 1]>>
                   = ExpectedBulkEntry(rows[r], cols[k], args.rawAttributes)

\* lines 398-431: the place of the column in an order item, after the models
\* that lead it
OrderColumnAt(item) ==
  CHOOSE i \in 1..Len(item) :
    /\ i = Len(item) \/ ~IsModelRef(item[i])
    /\ \A j \in 1..(i - 1) : IsModelRef(item[j])

\* the order items of the request that carry, right after their column, a plain
\* string outside the closed set of directions
UnknownDirections(order) ==
  { k \in 1..Len(order) :
      /\ IsArray(order[k])
      /\ Len(order[k].v) > 1
      /\ LET item == order[k].v
             c == OrderColumnAt(item)
         IN /\ c < Len(item)
            /\ IsString(item[c + 1])
            /\ ToUpperCase(item[c + 1].v) \notin
                 {"ASC", "DESC", "ASC NULLS FIRST", "DESC NULLS FIRST",
                  "ASC NULLS LAST", "DESC NULLS LAST", "NULLS FIRST", "NULLS LAST"} }

\* C14: in ORDER compilation every plain string appended unquoted after the
\* column of an order item is one of the closed set of directions, compared
\* case-insensitively; a request with any other string in that place raises,
\* whether the item starts with a model, a {model, as} object, a string or an
\* expression.
OrderDirectionsValidated ==
  (/\ pc = "done"
   /\ op = "getQueryOrders"
   /\ IsArray(args.options.order)
   /\ UnknownDirections(args.options.order.v) # {}) =>
    result.kind = "error"

\* the fields addIndexQuery works on and the names they go by
IndexFieldsOf(request) ==
  IF IsArray(request.attributes) THEN request.attributes.v ELSE request.options.fields

IndexFieldNames(fields) ==
  [i \in 1..Len(fields) |->
     IF fields[i].t = "str" THEN fields[i].v
     ELSE IF fields[i].t = "lit" THEN ""
     ELSE IF fields[i].attribute # "" THEN fields[i].attribute
     ELSE fields[i].name]

\* the name of the index in a statement: what follows INDEX [CONCURRENTLY]
IndexNameIn(text) ==
  LET p == CHOOSE i \in Places(text, "INDEX") : TRUE
  IN IF text[p + 2] = "CONCURRENTLY" THEN text[p + 4] ELSE text[p + 2]

\* the default prefix with every '.' and every quote character removed
StrippedPrefix(s) ==
  CASE s = "s.users" -> "susers"
    [] s = "'users'" -> "users"
    [] OTHER -> s

\* snake_case of prefix + '_' + the field names joined by '_'
DefaultIndexName(prefix, names) ==
  Underscore(prefix) \o "_"
    \o ConcatAll(Join([i \in 1..Len(names) |-> <<Underscore(names[i])>>], "_"))

\* addIndexQuery was called without a name, without indexName and without
\* prefix
IndexUnnamed ==
  /\ pc = "done"
  /\ op = "addIndexQuery"
  /\ args.options.name = ""
  /\ args.options.indexName = ""
  /\ args.options.prefix = ""

\* an unnamed field raises, otherwise the statement spells the default name
\* built on the prefix
IndexNamedAfter(prefix) ==
  LET fields == IndexFieldsOf(args)
  IN IF FirstUnnamed(fields) <= Len(fields)
       THEN result = [kind |-> "error", sql |-> << >>, err |-> ErrIndexField]
       ELSE result.kind = "text" =>
              IndexNameIn(result.sql)
                = quoteIdentifiers(DefaultIndexName(prefix, IndexFieldNames(fields)))

\* C17 as stated: without options.name the index is named snake_case(prefix +
\* '_' + field names joined by '_'), the default prefix being rawTablename,
\* else tableName, with every '.' and every quote character removed; a field
\* object without name and attribute raises the missing-name error.
IndexNameStripsDots ==
  IndexUnnamed =>
    IndexNamedAfter(StrippedPrefix(IF args.rawTablename # "" THEN args.rawTablename
                                   ELSE args.tableName))

\* C17: without options.name the index is named snake_case(prefix + '_' + field
\* names joined by '_'), the default prefix being rawTablename, else tableName,
\* with every '.' replaced by '_' and every quote character removed; a field
\* object without name and attribute raises the missing-name error.
IndexNameReplacesDots ==
  IndexUnnamed =>
    IndexNamedAfter(CleanPrefix(IF args.rawTablename # "" THEN args.rawTablename
                                ELSE args.tableName))

\* C17 witness: an index without a name on a table given with its schema and
\* no rawTablename, and the statement was returned
IndexNameDottedWitness ==
  /\ IndexUnnamed
  /\ args.tableName = "s.users"
  /\ args.rawTablename = ""
  /\ result.kind = "text"
  /\ Len(IndexFieldsOf(args)) > 1

\* the through includes of a list of includes and of the includes below them,
\* each with the alias of its parent ("" for the queried table) and its own
RECURSIVE ThroughIncludesOf(_, _)
ThroughIncludesOf(includes, parentAs) ==
  UNION { LET include == includes[i]
              as == IF parentAs = "" THEN include.as ELSE parentAs \o "." \o include.as
          IN IF include.separate \/ include.pseudo THEN {}
             ELSE (IF include.through.model # ""
                     THEN {[parent |-> parentAs, as |-> as,
                            throughAs |-> as \o "." \o include.through.as,
                            association |-> include.association]}
                     ELSE {})
                  \cup ThroughIncludesOf(include.include, as) :
          i \in 1..Len(includes) }

\* the spellings of '<parent>.<source primary key> = <throughAs>.<identifierField>'
SourcePredicates(j, tableName, model) ==
  LET association == Associations[j.association]
      right == " = " \o quoteIdentifier(j.throughAs) \o "."
               \o quoteIdentifier(association.identifierField)
      keys == {primaryKeyAttribute(association.source), primaryKeyField(association.source)}
      parents == IF j.parent = ""
                   THEN {quoteTable(Str(tableName), ""), quoteIdentifier(model),
                         \* the alias of the main table, quoted once more
                         quoteTable(Str(quoteTable(Str(tableName), "")), "")}
                   ELSE {quoteIdentifier(j.parent)}
  IN {p \o "." \o quoteIdentifier(k) \o right : p \in parents, k \in keys}
     \cup {quoteIdentifier((IF j.parent = "" THEN model ELSE j.parent) \o "." \o k) \o right :
             k \in keys}

\* '<as>.<target primary key field> = <throughAs>.<foreignIdentifierField>'
TargetPredicate(j) ==
  LET association == Associations[j.association]
  IN quoteIdentifier(j.as) \o "." \o quoteIdentifier(primaryKeyField(association.target))
     \o " = " \o quoteIdentifier(j.throughAs) \o "."
     \o quoteIdentifier(association.foreignIdentifierField)

\* the statement spells the predicate after FROM, alone or closing a wrapped
\* join
SpelledAfterFrom(text, predicates) ==
  \E f, i \in 1..Len(text) :
    /\ text[f] = " FROM "
    /\ f < i
    /\ \E q \in predicates : text[i] \in {q, ") ON " \o q}

SelectThroughIncludes ==
  IF pc \in {"done", "again"} /\ op = "selectQuery" /\ result.kind = "text"
     /\ IsArray(args.options.include)
    THEN ThroughIncludesOf(args.options.include.v, "")
    ELSE {}

\* the request with options.subQuery = true in place of the undefined one
ExplicitSubQuery(options, model) ==
  LET explicit == [options EXCEPT !.subQuery = Bool(TRUE)]
  IN [explicit EXCEPT
        !.include = IF IsArray(options.include)
                      THEN ValidatedIncludes(options.include.v, explicit, model)
                      ELSE options.include]

\* selectQuery derived the sub-query decision for a request with includes that
\* are all joined directly
DerivedSubQuery ==
  /\ pc = "done"
  /\ op = "selectQuery"
  /\ IsUndefined(args.options.subQuery)
  /\ Truthy(args.options.limit)
  /\ args.options.hasMultiAssociation
  /\ IsArray(args.options.include)
  /\ Len(args.options.include.v) > 0
  /\ ThroughIncludesOf(args.options.include.v, "") = {}

\* C30: a request whose sub-query decision is derived from limit and
\* hasMultiAssociation (options.subQuery undefined) gives the same SQL as the
\* same request with options.subQuery = true: the join predicates of the
\* directly joined includes are built from the same decision.
DerivedSubQueryAsExplicit ==
  DerivedSubQuery =>
    result = Returned(selectRun(args.tableName,
                                ExplicitSubQuery(args.options, args.model),
                                args.model).query)

\* C21: for a many-to-many include the join text of selectQuery holds the
\* source-side predicate <parent>.<source primary key> =
\* <throughAs>.<identifierField> and the target-side predicate <as>.<target
\* primary key field> = <throughAs>.<foreignIdentifierField>, in the wrapped
\* form and in the two-joins form alike.
ThroughJoinHasBothPredicates ==
  \A j \in SelectThroughIncludes :
    /\ SpelledAfterFrom(result.sql, SourcePredicates(j, args.tableName, args.model))
    /\ SpelledAfterFrom(result.sql, {TargetPredicate(j)})

\* C21 witness: a nested many-to-many include joined in the two-joins form
ThroughTwoJoinsWitness ==
  /\ \E j \in SelectThroughIncludes : j.parent # ""
  /\ ~dialect.joinTableDependent

\* the clauses of a statement that hand the written rows back
ReturnClauses(text) ==
  [returning |-> HasToken(text, " RETURNING *"),
   output |-> HasToken(text, " OUTPUT INSERTED.*"),
   tmp |-> HasToken(text, "select * from @tmp")]

\* C25: with the same dialect and the same options (returning, hasTrigger)
\* updateQuery emits a RETURNING / OUTPUT / temp-table clause if and only if
\* insertQuery does: RETURNING * and OUTPUT INSERTED.* only with the dialect's
\* support and options.returning, the @tmp rewrite only under hasTrigger with
\* tmpTableTrigger on top of that.
UpdateReturnsAsInsert ==
  (pc = "done" /\ op = "updateQuery" /\ result.kind = "text" /\ result.sql # << >>) =>
    LET inserted ==
          insertQuery(dialect, args.tableName, args.attrValueHash, args.attributes,
                      [returning |-> args.options.returning,
                       hasTrigger |-> args.options.hasTrigger,
                       exception |-> "", onDuplicate |-> "", ignore |-> FALSE])
        clauses == ReturnClauses(result.sql)
    IN /\ clauses = ReturnClauses(inserted)
       /\ clauses.returning =>
            dialect.returnValues = "returning" /\ args.options.returning
       /\ clauses.output => dialect.returnValues = "output" /\ args.options.returning
       /\ clauses.tmp =>
            /\ dialect.returnValues = "output" /\ args.options.returning
            /\ args.options.hasTrigger /\ dialect.tmpTableTrigger

\* C26: a Where(attribute, comparator, logic) node lowers to 'key IS NULL'
\* when logic lowers to NULL and otherwise to key, comparator and lowered
\* value separated by single spaces, whether logic is an expression or a
\* scalar.
WhereNodeSpaced ==
  (pc = "done" /\ op = "handleSequelizeMethod" /\ ~IsPlainObject(args.smth.logic)) =>
    LET smth == args.smth
        key == IF IsSequelizeMethod(smth.attribute) THEN ConcatAll(smth.attribute.v)
               ELSE "[" \o smth.attribute.model \o "].[" \o smth.attribute.field \o "]"
        value == ConcatAll(IF IsSequelizeMethod(smth.logic) THEN smth.logic.v
                           ELSE SqlStringEscape(smth.logic))
    IN /\ result.kind = "text"
       /\ ConcatAll(result.sql) = IF value = "NULL" THEN key \o " IS NULL"
                                  ELSE key \o " " \o smth.comparator \o " " \o value

\* the required many-to-many includes at the top of a request whose rows are
\* selected in a subquery
RequiredThroughIncludes ==
  IF pc = "done" /\ op = "selectQuery" /\ result.kind = "text"
     /\ IsArray(args.options.include) /\ SubQueryActive(args.options)
    THEN {j \in ThroughIncludesOf(args.options.include.v, "") :
            j.parent = "" /\ \E i \in 1..Len(args.options.include.v) :
                               /\ args.options.include.v[i].association = j.association
                               /\ args.options.include.v[i].required}
    ELSE {}

\* the entry '( <subquery> ) IS NOT NULL' shows in the caller's where object
\* under the key, in the where text stored in options, or in the statement
FilteredUnder(key) ==
  \/ HasKey(heap.where, key)
  \/ HasKey(heap.options.where, key)
  \/ heap.options.where.t = "sql" /\ HasToken(heap.options.where.v, "IS NOT NULL")
  \/ HasToken(result.sql, "IS NOT NULL")

\* C27: whenever subQuery is active and a many-to-many include is required,
\* selectQuery adds to options.where an entry under a key starting with '__'
\* whose value is '( <correlated subquery with limit 1> ) IS NOT NULL', whether
\* or not the include or its through model carries a where.
RequiredThroughIsFiltered ==
  \A j \in RequiredThroughIncludes : FilteredUnder("__" \o j.throughAs)

\* the first position of an element of options.order is a model or a
\* {model, as} object
ModelFirst(t) == IsArray(t) /\ Len(t.v) > 0 /\ IsModelRef(t.v[1])

\* C28: with subQuery active the ORDER BY of the inner subquery holds exactly
\* the elements of options.order whose first position is not a model, in input
\* order, be the element a sequence, a plain string or an expression; the
\* outer ORDER BY holds every element in input order; a plain string element
\* is emitted verbatim.
InnerOrderTakesEveryOwnElement ==
  (pc = "done" /\ op = "getQueryOrders" /\ result.kind = "orders"
     /\ IsArray(args.options.order)) =>
    LET order == args.options.order.v
        own == {k \in 1..Len(order) : ~ModelFirst(order[k])}
        Position(k) == Cardinality({j \in own : j <= k})
    IN /\ Len(result.mainQueryOrder) = Len(order)
       /\ \A k \in 1..Len(order) :
            IsString(order[k]) => result.mainQueryOrder[k] = <<order[k].v>>
       /\ args.subQuery =>
            /\ Len(result.subQueryOrder) = Cardinality(own)
            /\ \A k \in own :
                 result.subQueryOrder[Position(k)] = result.mainQueryOrder[k]

(***************************************************************************)
(* The transaction builders called one after the other on a tree of        *)
(* transactions (part_000, lines 771-821).  The generator keeps no state   *)
(* between the calls and accepts them in any order; heap.calls is the      *)
(* history of the calls with what each one returned.                       *)
(***************************************************************************)
MaxCalls == 3

TransactionTree ==
  { [name |-> "t1", parent |-> ""], [name |-> "sp1", parent |-> "t1"],
    [name |-> "sp2", parent |-> "sp1"], [name |-> "t2", parent |-> ""] }

InitTransactions ==
  /\ pc = "stream"
  /\ op = "transactions"
  /\ args = [tree |-> TransactionTree]
  /\ result = NoResult
  /\ dialect = BaseDialect
  /\ heap = [calls |-> << >>]

Called(call, transaction, text) ==
  /\ result' = Returned(text)
  /\ heap' = [calls |-> Append(heap.calls,
                               [call |-> call, transaction |-> transaction,
                                emitted |-> Returned(text)])]
  /\ UNCHANGED <<op, args, pc, dialect>>

StartTransaction ==
  /\ pc = "stream"
  /\ Len(heap.calls) < MaxCalls
  /\ \E t \in args.tree : Called("start", t, startTransactionQuery(t))

CommitTransaction ==
  /\ pc = "stream"
  /\ Len(heap.calls) < MaxCalls
  /\ \E t \in args.tree : Called("commit", t, commitTransactionQuery(t))

RollbackTransaction ==
  /\ pc = "stream"
  /\ Len(heap.calls) < MaxCalls
  /\ \E t \in args.tree : Called("rollback", t, rollbackTransactionQuery(t))

NextTransactions == StartTransaction \/ CommitTransaction \/ RollbackTransaction

SpecTransactions == InitTransactions /\ [][NextTransactions]_vars

\* the calls made so far, while the builders are called in a stream
StreamCalls == IF pc = "stream" THEN heap.calls ELSE << >>

Emitted(text) == [kind |-> "text", sql |-> text, err |-> ""]

\* what one call has to yield: savepoint statements under the force-quoted
\* name for a transaction with a parent, the plain statements for a root
CallYields(c) ==
  LET q == "[" \o c.transaction.name \o "]"
  IN IF c.transaction.parent # ""
       THEN CASE c.call = "start" -> c.emitted = Emitted(<<"SAVEPOINT ", q, ";">>)
              [] c.call = "rollback" ->
                   c.emitted = Emitted(<<"ROLLBACK TO SAVEPOINT ", q, ";">>)
              [] OTHER -> c.emitted.kind = "undefined"
       ELSE CASE c.call = "start" -> c.emitted = Emitted(<<"START TRANSACTION", ";">>)
              [] c.call = "rollback" -> c.emitted = Emitted(<<"ROLLBACK", ";">>)
              [] OTHER -> c.emitted = Emitted(<<"COMMIT", ";">>)

IsRollbackTo(c) ==
  c.emitted.kind = "text" /\ c.emitted.sql[1] = "ROLLBACK TO SAVEPOINT "

IsSavepoint(c, q) ==
  c.emitted.kind = "text" /\ c.emitted.sql[1] = "SAVEPOINT " /\ c.emitted.sql[2] = q

\* start and rollback of one nested transaction spell the same name
SameSavepointName(calls) ==
  \A i, j \in 1..Len(calls) :
    (/\ calls[i].transaction = calls[j].transaction
     /\ calls[i].call = "start"
     /\ IsRollbackTo(calls[j])) =>
      IsSavepoint(calls[i], calls[j].emitted.sql[2])

\* COMMIT appears only for a transaction without parent
CommitOnlyForRoots(calls) ==
  \A i \in 1..Len(calls) :
    (calls[i].emitted.kind = "text" /\ calls[i].emitted.sql[1] = "COMMIT") =>
      calls[i].transaction.parent = ""

\* C18 as stated: for any sequence of start / commit / rollback calls a nested
\* transaction yields SAVEPOINT q; / ROLLBACK TO SAVEPOINT q; with one
\* force-quoted name and nothing on commit, a root yields START TRANSACTION;
\* COMMIT; ROLLBACK;, and in the stream every ROLLBACK TO SAVEPOINT names a
\* savepoint emitted earlier and COMMIT is emitted only for roots.
RollbackNamesEarlierSavepoint ==
  /\ \A i \in 1..Len(StreamCalls) : CallYields(StreamCalls[i])
  /\ SameSavepointName(StreamCalls)
  /\ CommitOnlyForRoots(StreamCalls)
  /\ \A j \in 1..Len(StreamCalls) :
       IsRollbackTo(StreamCalls[j]) =>
         \E i \in 1..(j - 1) : IsSavepoint(StreamCalls[i], StreamCalls[j].emitted.sql[2])

\* C18: for any sequence of start / commit / rollback calls a nested transaction
\* yields SAVEPOINT q; / ROLLBACK TO SAVEPOINT q; with one force-quoted name and
\* nothing on commit, a root yields START TRANSACTION; COMMIT; ROLLBACK;, COMMIT
\* is emitted only for roots, and every ROLLBACK TO SAVEPOINT of a transaction
\* that was started earlier in the sequence names a savepoint emitted earlier.
RollbackNamesSavepointOfStarted ==
  /\ \A i \in 1..Len(StreamCalls) : CallYields(StreamCalls[i])
  /\ SameSavepointName(StreamCalls)
  /\ CommitOnlyForRoots(StreamCalls)
  /\ \A j \in 1..Len(StreamCalls) :
       (/\ IsRollbackTo(StreamCalls[j])
        /\ \E i \in 1..(j - 1) :
             /\ StreamCalls[i].call = "start"
             /\ StreamCalls[i].transaction = StreamCalls[j].transaction) =>
         \E i \in 1..(j - 1) : IsSavepoint(StreamCalls[i], StreamCalls[j].emitted.sql[2])

\* C18 witness: a nested transaction was started, committed and then rolled
\* back
NestedLifecycleWitness ==
  /\ pc = "stream"
  /\ Len(heap.calls) = 3
  /\ heap.calls[1].call = "start"
  /\ heap.calls[2].call = "commit"
  /\ heap.calls[3].call = "rollback"
  /\ \A i \in 1..3 : heap.calls[i].transaction = [name |-> "sp2", parent |-> "sp1"]
  /\ result.kind = "text"

\* the whole generator
Init == InitStatements \/ InitSelect \/ InitTransactions

Next == NextStatements \/ NextSelect \/ NextTransactions

Spec == Init /\ [][Next]_vars

====
